---------------------------- MODULE Spec2Model ----------------------------
(***************************************************************************)
(* State-machine model of the browser-use orchestration engine:            *)
(*   - MessageHistory (agent/message_manager/views.py): add_message /      *)
(*     remove_message with token accounting;                               *)
(*   - Agent.multi_act (agent/service.py): one action batch executed       *)
(*     against a page that mutates on its own;                             *)
(*   - Agent.run / Agent.step (agent/service.py): the run loop with        *)
(*     pause / resume / stop;                                              *)
(*   - HistoryTreeProcessor (dom/history_tree_processor/service.py):       *)
(*     element fingerprints and the search of a stored element;            *)
(*   - Agent.rerun_history (agent/service.py): the replay of a history;    *)
(*   - Agent.take_step (agent/service.py): one step driven by the host;    *)
(*   - MessageManager (agent/message_manager/service.py): get_messages     *)
(*     and add_interaction.                                                *)
(* Nine specifications share the module: SpecMH, SpecBatch, Spec,          *)
(* SpecTree, SpecReplay, SpecTakeStep, SpecMM, SpecFair (run() under fair  *)
(* scheduling) and SpecResume (run() with the browser restart of resume()).*)
(***************************************************************************)
EXTENDS Integers, Sequences, FiniteSets, TLC

VARIABLES
    \* ---- MessageHistory ----
    messages,        \* MessageHistory.messages: sequence of [content, tokens]
    total_tokens,    \* MessageHistory.total_tokens
    mh_last,         \* the last call on the history, its arguments and outcome
    \* ---- Agent.multi_act ----
    actions,               \* the batch: sequence of [index], index 0 = get_index() is None
    check_for_new_elements,
    i,                     \* loop variable of "for i, action in enumerate(actions)"
    results,               \* accumulated ActionResults (by kind)
    cached_selector_map,   \* selector map cached when the batch began
    new_selector_map,      \* selector map of the session's latest get_state
    mpc,                   \* where multi_act is suspended
    dispatched,            \* positions handed to controller.act, in dispatch order
    env_pages,             \* selector maps the page can show in this behaviour
    \* ---- AgentState flags ----
    paused,
    stopped,
    \* ---- Agent.run / Agent.step ----
    pc,                    \* where run() / step() is suspended
    max_steps,             \* run(max_steps)
    hooks,                 \* the host passed its hooks and callbacks (on_step_start,
                           \* on_step_end, new-step and done callback)
    initial_actions,       \* Agent.initial_actions
    max_failures,          \* settings.max_failures
    tool_calling_method,   \* Agent.tool_calling_method
    validate_output,       \* settings.validate_output
    planner_llm,           \* settings.planner_llm is set (planner_interval 1)
    max_actions_per_step,  \* settings.max_actions_per_step
    step,                  \* loop variable of "for step in range(max_steps)"
    n_steps,               \* AgentState.n_steps, counted from 0
    consecutive_failures,  \* AgentState.consecutive_failures
    last_result,           \* AgentState.last_result
    history,               \* AgentState.history.history: [model_output, result]
    conversation,          \* message manager history: [kind, of]
    model_output,          \* step() local: 0 = None, else the n_steps it got
    state_ok,              \* step() local "state" is not None
    step_entry,            \* flags, failure count and history length when step() was entered
    step_exits,            \* how each call of step() ended, in call order
    error,                 \* the exception step() is handling: [cause, class]
    pending_error,         \* text of the last step error no model call has followed
    run_end,               \* why run() ended
    response_action,       \* get_next_action local: parsed.action as the model gave it
    mm_max_input_tokens,   \* _message_manager.settings.max_input_tokens
    \* ---- HistoryTreeProcessor ----
    element_tree,          \* the current snapshot: NodeIds -> DOMElementNode
    snapshot_before,       \* the snapshot before the last re-render
    last_change,           \* what the last re-render changed: [kind, node, key]
    dom_history_element,   \* the DOMHistoryElement last converted
    source_node,           \* the node it was converted from
    match_criteria,        \* argument of the last find_history_element_in_tree
    found,                 \* its outcome: [raised, node], node 0 = None
    tpc,                   \* which operation on the snapshot comes next
    \* ---- Agent.rerun_history ----
    replay_items,          \* history.history: per step the recorded actions [index, element]
    max_retries,
    skip_failures,
    ri,                    \* loop variable of "for i, history_item in enumerate(...)"
    retry_count,
    replay_results,        \* the local "results"
    replay_state,          \* _execute_history_step local "state" (its element tree)
    updated_actions,       \* _execute_history_step local
    replay_dispatched,     \* actions multi_act dispatched: [step, position, index]
    replay_trace,          \* per step: the attempts and the delays between them
    rpc,                   \* where rerun_history is suspended
    \* ---- MessageManager ----
    past_steps,            \* MessageManager.past_steps: (model_output, results) pairs
    max_num_of_msg_in_history,
    got_messages,          \* what the last get_messages() returned
    \* ---- the host's callback and the browser ----
    done_callbacks,        \* how often register_done_callback was invoked
    browser_init           \* a browser._init() scheduled by resume() is not over

mhVars == <<messages, total_tokens, mh_last>>
batchVars == <<actions, check_for_new_elements, i, results, cached_selector_map,
               new_selector_map, mpc, dispatched, env_pages>>
flagVars == <<paused, stopped>>
configVars == <<max_steps, hooks, initial_actions, max_failures, tool_calling_method,
                validate_output, planner_llm, max_actions_per_step>>
runVars == <<pc, configVars, step, n_steps,
             consecutive_failures, last_result, history, conversation,
             model_output, state_ok, step_entry, step_exits, error, pending_error,
             run_end, response_action, mm_max_input_tokens>>

treeVars == <<element_tree, snapshot_before, last_change, dom_history_element,
              source_node, match_criteria, found, tpc>>
replayVars == <<replay_items, max_retries, skip_failures, ri, retry_count,
                replay_results, replay_state, updated_actions, replay_dispatched,
                replay_trace, rpc>>
mmVars == <<past_steps, max_num_of_msg_in_history, got_messages>>
hostVars == <<done_callbacks, browser_init>>

vars == <<messages, total_tokens, mh_last, actions, check_for_new_elements, i,
          results, cached_selector_map, new_selector_map, mpc, dispatched,
          env_pages, paused, stopped, pc, max_steps, hooks, initial_actions,
          step, n_steps, consecutive_failures, last_result, history,
          conversation, model_output, state_ok, step_entry, step_exits,
          max_failures, tool_calling_method, validate_output, error,
          pending_error, run_end, planner_llm, max_actions_per_step,
          response_action, mm_max_input_tokens, element_tree, snapshot_before, last_change,
          dom_history_element, source_node, match_criteria, found, tpc,
          replay_items, max_retries, skip_failures, ri, retry_count,
          replay_results, replay_state, updated_actions, replay_dispatched,
          replay_trace, rpc, past_steps, max_num_of_msg_in_history, got_messages,
          done_callbacks, browser_init>>

(***************************************************************************)
(* Bounds                                                                  *)
(***************************************************************************)
MaxLen == 3          \* longest message history explored
MaxPos == 5          \* positions / indices range over -MaxPos .. MaxPos
MaxActions == 3      \* longest action batch explored (multi_act on its own)
MaxSteps == 3        \* largest max_steps passed to run()
MaxFailures == 2     \* AgentSettings.max_failures of the explored runs
RunMaxActions == 2   \* longest batch the model returns inside run()
MaxReplaySteps == 2  \* steps of the history handed to rerun_history
MaxRetries == 2      \* largest max_retries passed to rerun_history
MaxPastSteps == 4    \* interactions recorded by add_interaction
MaxHistoryLimit == 3 \* largest max_num_of_msg_in_history

Range(q) == {q[k] : k \in 1 .. Len(q)}
Max(a, b) == IF a >= b THEN a ELSE b
Min(a, b) == IF a <= b THEN a ELSE b

(***************************************************************************)
(* MessageHistory                                                          *)
(***************************************************************************)
Contents == {"A", "B", "C"}
Costs == {5, 10}
ManagedMessage == [content : Contents, tokens : Costs]
Positions == (0 - MaxPos) .. MaxPos

\* 0-based insertion of x at index k (0 <= k <= Len(s)).
InsertAt(s, k, x) == SubSeq(s, 1, k) \o <<x>> \o SubSeq(s, k + 1, Len(s))

\* 0-based removal of the element at index k (0 <= k < Len(s)).
RemoveAt(s, k) == SubSeq(s, 1, k) \o SubSeq(s, k + 2, Len(s))

RECURSIVE SumTokens(_)
SumTokens(s) == IF s = <<>> THEN 0 ELSE s[1].tokens + SumTokens(Tail(s))

\* Index at which list.insert(position, x) places x in a list of length len.
InsertIndexOffByOne(len, position) ==
    IF position < 0 THEN Max(0, len + 1 + position) ELSE Min(position, len)

\* an insertion that puts every negative position first
InsertIndexNegativeFirst(len, position) ==
    IF position < 0 THEN 0 ELSE Min(position, len)

InsertIndex(len, position) ==
    IF position < 0 THEN Max(0, len + position) ELSE Min(position, len)

\* add_message(message, metadata, position=None) on history h.
add_message(h, msg, hasPos, position) ==
    [messages |-> IF hasPos
                  THEN InsertAt(h.messages, InsertIndex(Len(h.messages), position), msg)
                  ELSE Append(h.messages, msg),
     total_tokens |-> h.total_tokens + msg.tokens]

\* An index resolves when -len <= index < len; negative ones count from the end.
Resolves(len, index) == index >= 0 - len /\ index < len
Resolved(len, index) == IF index < 0 THEN len + index ELSE index

\* remove_message(index=-1) on history h; raised = out-of-range error.
remove_message_keeps_tokens(h, index, raiseOnEmpty) ==
    IF h.messages = <<>> THEN
        [messages |-> h.messages, total_tokens |-> h.total_tokens,
         raised |-> (index # -1 /\ raiseOnEmpty)]
    ELSE IF ~Resolves(Len(h.messages), index) THEN
        [messages |-> h.messages, total_tokens |-> h.total_tokens, raised |-> TRUE]
    ELSE
        [messages |-> RemoveAt(h.messages, Resolved(Len(h.messages), index)),
         total_tokens |-> h.total_tokens,
         raised |-> FALSE]

remove_message_clamps(h, index, raiseOnEmpty) ==
    IF h.messages = <<>> THEN
        [messages |-> h.messages, total_tokens |-> h.total_tokens,
         raised |-> (index # -1 /\ raiseOnEmpty)]
    ELSE LET k == IF Resolves(Len(h.messages), index)
                  THEN Resolved(Len(h.messages), index)
                  ELSE Len(h.messages) - 1
         IN [messages |-> RemoveAt(h.messages, k),
             total_tokens |-> h.total_tokens - h.messages[k + 1].tokens,
             raised |-> FALSE]

remove_message_always_last(h, index, raiseOnEmpty) ==
    IF h.messages = <<>> THEN
        [messages |-> h.messages, total_tokens |-> h.total_tokens,
         raised |-> (index # -1 /\ raiseOnEmpty)]
    ELSE IF ~Resolves(Len(h.messages), index) THEN
        [messages |-> h.messages, total_tokens |-> h.total_tokens, raised |-> TRUE]
    ELSE
        [messages |-> RemoveAt(h.messages, Len(h.messages) - 1),
         total_tokens |-> h.total_tokens - h.messages[Len(h.messages)].tokens,
         raised |-> FALSE]

remove_message(h, index, raiseOnEmpty) ==
    IF h.messages = <<>> THEN
        \* default index: no-op; the outcome for another index on an empty
        \* history is not fixed (raiseOnEmpty), the history is untouched
        [messages |-> h.messages, total_tokens |-> h.total_tokens,
         raised |-> (index # -1 /\ raiseOnEmpty)]
    ELSE IF ~Resolves(Len(h.messages), index) THEN
        [messages |-> h.messages, total_tokens |-> h.total_tokens, raised |-> TRUE]
    ELSE
        [messages |-> RemoveAt(h.messages, Resolved(Len(h.messages), index)),
         total_tokens |-> h.total_tokens
                            - h.messages[Resolved(Len(h.messages), index) + 1].tokens,
         raised |-> FALSE]

History == [messages |-> messages, total_tokens |-> total_tokens]

MHRest ==
    /\ messages = <<>>
    /\ total_tokens = 0
    /\ mh_last = [op |-> "new", hasPos |-> FALSE, arg |-> 0, msg |-> <<>>,
                  before |-> <<>>, beforeTokens |-> 0, raised |-> FALSE]

\* no MessageManager in use
MMRest ==
    /\ past_steps = <<>>
    /\ max_num_of_msg_in_history = 0
    /\ got_messages = [recorded |-> 0, messages |-> <<>>]

\* the done callback was not invoked and no browser._init() is pending
HostRest ==
    /\ done_callbacks = 0
    /\ browser_init = FALSE

AddMessage ==
    /\ Len(messages) < MaxLen
    /\ \E msg \in ManagedMessage, hasPos \in BOOLEAN, position \in Positions :
          /\ (~hasPos => position = 0)
          /\ LET r == add_message(History, msg, hasPos, position)
             IN /\ messages' = r.messages
                /\ total_tokens' = r.total_tokens
          /\ mh_last' = [op |-> "add", hasPos |-> hasPos, arg |-> position,
                         msg |-> <<msg>>, before |-> messages,
                         beforeTokens |-> total_tokens, raised |-> FALSE]
    /\ UNCHANGED <<mmVars, hostVars, batchVars, flagVars, runVars, treeVars, replayVars>>

RemoveMessage ==
    \E index \in Positions, raiseOnEmpty \in BOOLEAN :
       /\ (raiseOnEmpty => (messages = <<>> /\ index # -1))
       /\ LET r == remove_message(History, index, raiseOnEmpty)
          IN /\ messages' = r.messages
             /\ total_tokens' = r.total_tokens
             /\ mh_last' = [op |-> "remove", hasPos |-> TRUE, arg |-> index,
                            msg |-> <<>>, before |-> messages,
                            beforeTokens |-> total_tokens, raised |-> r.raised]
       /\ UNCHANGED <<mmVars, hostVars, batchVars, flagVars, runVars, treeVars, replayVars>>

MHNext == AddMessage \/ RemoveMessage

(***************************************************************************)
(* DOM elements, selector maps and their hashes                            *)
(***************************************************************************)
Idx == {1, 2}
NoElement == [branch_path |-> "none", attributes |-> "none"]
Elements == {[branch_path |-> "div/button", attributes |-> "id=a"],
             [branch_path |-> "div/button", attributes |-> "id=b"],
             [branch_path |-> "div/a", attributes |-> "id=a"]}
\* a selector map; NoElement at k stands for "k is not a key of the map"
SelectorMaps == [Idx -> Elements \cup {NoElement}]

\* sha256 is modelled as an injective tagging of the hashed string
Sha256(str) == [sha256 |-> str]
NoneHash == [sha256 |-> "<None>"]

\* HashedDomElement of a node: branch path and attributes are hashed apart
hash(e) == [branch_path_hash |-> Sha256(e.branch_path),
            attributes_hash |-> Sha256(e.attributes)]

\* "x.hash.branch_path_hash if x else None" for x = selector_map.get(index)
TargetHashFullFingerprint(map, index) ==
    IF map[index] = NoElement THEN [branch_path_hash |-> NoneHash, attributes_hash |-> NoneHash]
    ELSE hash(map[index])

TargetHash(map, index) ==
    IF map[index] = NoElement THEN NoneHash ELSE hash(map[index]).branch_path_hash

\* set(e.hash.branch_path_hash for e in selector_map.values())
PathHashes(map) ==
    {hash(map[k]).branch_path_hash : k \in {j \in Idx : map[j] # NoElement}}

(***************************************************************************)
(* HistoryTreeProcessor (dom/history_tree_processor/service.py): element   *)
(* fingerprints and the search of a history element in a tree.             *)
(* Strings that the code takes apart or puts together are sequences of     *)
(* one-character strings.                                                  *)
(***************************************************************************)
\* sep.join(parts)
RECURSIVE Join(_, _)
Join(sep, parts) ==
    IF parts = <<>> THEN <<>>
    ELSE IF Len(parts) = 1 THEN parts[1]
    ELSE parts[1] \o sep \o Join(sep, Tail(parts))

\* key.startswith(prefix)
startswith(key, prefix) ==
    Len(key) >= Len(prefix) /\ SubSeq(key, 1, Len(prefix)) = prefix

\* the default exclude_attributes list of _attributes_hash
exclude_attributes ==
    {<<"d", "a", "t", "a", "-", "v", "e", "d">>,
     <<"d", "a", "t", "a", "-", "h", "v", "e", "i", "d">>,
     <<"j", "s", "n", "a", "m", "e">>,
     <<"p", "i", "n", "g">>,
     <<"d", "a", "t", "a", "-", "g", "a">>,
     <<"d", "a", "t", "a", "-", "a", "n", "a", "l", "y", "t", "i", "c", "s">>,
     <<"d", "a", "t", "a", "-", "g", "t", "m">>,
     <<"d", "a", "t", "a", "-", "c", "l", "i", "c", "k", "-", "i", "d">>,
     <<"d", "a", "t", "a", "-", "t", "r", "a", "c", "k", "i", "n", "g">>,
     <<"d", "a", "t", "a", "-", "r", "e", "a", "c", "t", "i", "d">>,
     <<"d", "a", "t", "a", "-", "h", "y", "d", "r", "a", "t", "e", "d">>,
     <<"d", "a", "t", "a", "-", "r", "e", "n", "d", "e", "r", "e", "d">>,
     <<"d", "a", "t", "a", "-", "t", "i", "m", "e", "s", "t", "a", "m", "p">>,
     <<"d", "a", "t", "a", "-", "r", "a", "n", "d", "o", "m">>,
     <<"d", "a", "t", "a", "-", "u", "n", "i", "q", "u", "e">>,
     <<"d", "a", "t", "a", "-", "t", "e", "s", "t", "i", "d">>,
     <<"d", "a", "t", "a", "-", "c", "y">>,
     <<"d", "a", "t", "a", "-", "t", "e", "s", "t">>,
     <<"d", "a", "t", "a", "-", "e", "2", "e">>,
     <<"d", "a", "t", "a", "-", "s", "t", "a", "t", "e">>,
     <<"d", "a", "t", "a", "-", "s", "t", "a", "t", "u", "s">>,
     <<"d", "a", "t", "a", "-", "l", "o", "a", "d", "i", "n", "g">>,
     <<"d", "a", "t", "a", "-", "e", "x", "p", "a", "n", "d", "e", "d">>,
     <<"d", "a", "t", "a", "-", "s", "e", "l", "e", "c", "t", "e", "d">>,
     <<"d", "a", "t", "a", "-", "s", "e", "s", "s", "i", "o", "n">>,
     <<"d", "a", "t", "a", "-", "v">>,
     <<"n", "g", "-", "v", "e", "r", "s", "i", "o", "n">>,
     <<"d", "a", "t", "a", "-", "r", "e", "n", "d", "e", "r", "e", "d", "-", "t", "i", "m", "e", "s", "t", "a", "m", "p">>}
excluded_prefixes == {<<"n", "g", "-">>, <<"v", "-">>, <<"d", "a", "t", "a", "-", "v", "-">>}

\* a filter that knows the list but not the prefixes
KeptByListOnly(key) == key \notin exclude_attributes

\* "key not in exclude_attributes and not any(key.startswith(prefix) ...)"
Kept(key) ==
    /\ key \notin exclude_attributes
    /\ ~\E prefix \in excluded_prefixes : startswith(key, prefix)

\* ''.join(f'{key}={value}' for key, value in attributes.items() if ...);
\* attributes is a dict in insertion order: a sequence of [key, value]
RECURSIVE attributes_string(_)
attributes_string(attributes) ==
    IF attributes = <<>> THEN <<>>
    ELSE (IF Kept(attributes[1].key)
          THEN attributes[1].key \o <<"=">> \o attributes[1].value
          ELSE <<>>) \o attributes_string(Tail(attributes))

attributes_hash(attributes) == Sha256(attributes_string(attributes))
xpath_hash(xpath) == Sha256(xpath)
parent_branch_path_hash(parent_branch_path) == Sha256(Join(<<"/">>, parent_branch_path))

\* ---- DOM trees: NodeIds -> DOMElementNode, parent 0 = None,
\* highlight_index 0 = None ----
NodeIds == {1, 2, 3}
TreeRoot == 1
TagNames == {<<"a">>, <<"d", "i", "v">>}
XPaths == {<<"/", "b", "o", "d", "y", "/", "a", "[", "1", "]">>, <<"/", "b", "o", "d", "y", "/", "a", "[", "2", "]">>}
KeyId == <<"i", "d">>
KeyClass == <<"c", "l", "a", "s", "s">>
AttributeKeys == {KeyId, KeyClass, <<"p", "i", "n", "g">>, <<"n", "g", "-", "a">>, <<"v", "-", "a">>, <<"d", "a", "t", "a", "-", "v", "-", "a">>}
AttributeValues == {<<"1">>, <<"2">>}

\* the three shapes of a tree of three nodes, children in list order
TreeShapes ==
    {[parent |-> <<0, 1, 2>>, children |-> << <<2>>, <<3>>, <<>> >>],
     [parent |-> <<0, 1, 1>>, children |-> << <<2, 3>>, <<>>, <<>> >>],
     [parent |-> <<0, 1, 1>>, children |-> << <<3, 2>>, <<>>, <<>> >>]}

\* the order in which process_node visits the tree: the node, then each
\* child's subtree in list order
RECURSIVE process_node(_, _)
RECURSIVE ProcessChildren(_, _)
ProcessChildren(tree, kids) ==
    IF kids = <<>> THEN <<>>
    ELSE process_node(tree, kids[1]) \o ProcessChildren(tree, Tail(kids))
process_node(tree, k) == <<k>> \o ProcessChildren(tree, tree[k].children)

\* 1-based position of x in the sequence q, 0 when absent
RECURSIVE IndexOf(_, _)
IndexOf(q, x) ==
    IF q = <<>> THEN 0
    ELSE IF q[1] = x THEN 1
    ELSE IF IndexOf(Tail(q), x) = 0 THEN 0 ELSE 1 + IndexOf(Tail(q), x)

\* the extraction script numbers the interactive elements in document
\* order; the others carry no highlight index
Highlighted(tree, interactive) ==
    [k \in NodeIds |->
        [tree[k] EXCEPT !.highlight_index =
            IF k \in interactive
            THEN IndexOf(SelectSeq(process_node(tree, TreeRoot),
                                   LAMBDA j : j \in interactive), k)
            ELSE 0]]
InteractiveNodes(tree) == {k \in NodeIds : tree[k].highlight_index # 0}

\* _get_parent_branch_path: walks up "while current_element.parent is not
\* None", collecting the element and its ancestors below the topmost one
RECURSIVE get_parent_branch_path(_, _)
get_parent_branch_path(tree, k) ==
    IF tree[k].parent = 0 THEN <<>>
    ELSE Append(get_parent_branch_path(tree, tree[k].parent), tree[k].tag_name)

\* value of attributes.get(key), <<>> when absent
RECURSIVE AttributeValue(_, _)
AttributeValue(attributes, key) ==
    IF attributes = <<>> THEN <<>>
    ELSE IF attributes[1].key = key THEN attributes[1].value
    ELSE AttributeValue(Tail(attributes), key)

\* BrowserContext._enhanced_css_selector_for_element: the xpath converted to
\* CSS, the classes and the safe attribute predicates appended
SafeAttributes == {KeyId}
enhanced_css_selector_for_element(node) ==
    [css |-> node.xpath,
     classes |-> AttributeValue(node.attributes, KeyClass),
     predicates |-> SelectSeq(node.attributes, LAMBDA a : a.key \in SafeAttributes)]

\* a conversion that forgets the attributes
convert_without_attributes(tree, k) ==
    [tag_name |-> tree[k].tag_name,
     xpath |-> tree[k].xpath,
     highlight_index |-> tree[k].highlight_index,
     entire_parent_branch_path |-> get_parent_branch_path(tree, k),
     attributes |-> <<>>,
     css_selector |-> enhanced_css_selector_for_element(tree[k])]

\* convert_dom_element_to_history_element
convert_dom_element_to_history_element(tree, k) ==
    [tag_name |-> tree[k].tag_name,
     xpath |-> tree[k].xpath,
     highlight_index |-> tree[k].highlight_index,
     entire_parent_branch_path |-> get_parent_branch_path(tree, k),
     attributes |-> tree[k].attributes,
     css_selector |-> enhanced_css_selector_for_element(tree[k])]

\* _hash_dom_history_element and _hash_dom_element: HashedDomElement
hash_dom_history_element(he) ==
    [branch_path_hash |-> parent_branch_path_hash(he.entire_parent_branch_path),
     attributes_hash |-> attributes_hash(he.attributes),
     xpath_hash |-> xpath_hash(he.xpath),
     css_selector |-> he.css_selector]

hash_dom_element(tree, k) ==
    [branch_path_hash |-> parent_branch_path_hash(get_parent_branch_path(tree, k)),
     attributes_hash |-> attributes_hash(tree[k].attributes),
     xpath_hash |-> xpath_hash(tree[k].xpath),
     css_selector |-> enhanced_css_selector_for_element(tree[k])]

\* "all(matches)" for one node: every recognised criterion that is in
\* match_criteria compares equal
AllMatch(hashed_node, hashed_he, criteria_list) ==
    /\ ("branch_path" \in criteria_list =>
            hashed_node.branch_path_hash = hashed_he.branch_path_hash)
    /\ ("attributes" \in criteria_list =>
            hashed_node.attributes_hash = hashed_he.attributes_hash)
    /\ ("xpath" \in criteria_list => hashed_node.xpath_hash = hashed_he.xpath_hash)
    /\ ("css_selector" \in criteria_list =>
            hashed_node.css_selector = hashed_he.css_selector)

\* all_matches[0]
PickFirst(all_matches) == all_matches[1]

\* find_history_element_in_tree: node 0 = None
find_history_element_in_tree(he, tree, criteria_list) ==
    IF criteria_list = <<>> THEN [raised |-> TRUE, node |-> 0]
    ELSE LET requested == {criteria_list[j] : j \in 1 .. Len(criteria_list)}
             all_matches ==
                 SelectSeq(process_node(tree, TreeRoot),
                           LAMBDA k : /\ tree[k].highlight_index # 0
                                      /\ AllMatch(hash_dom_element(tree, k),
                                                  hash_dom_history_element(he), requested))
         IN [raised |-> FALSE,
             node |-> IF all_matches = <<>> THEN 0 ELSE PickFirst(all_matches)]

\* ---- the operations applied to a snapshot ----
NoHistoryElement ==
    [tag_name |-> <<>>, xpath |-> <<>>, highlight_index |-> 0,
     entire_parent_branch_path |-> <<>>, attributes |-> <<>>,
     css_selector |-> [css |-> <<>>, classes |-> <<>>, predicates |-> <<>>]]
NoChange == [kind |-> "none", node |-> 0, key |-> <<>>]
NotFound == [raised |-> FALSE, node |-> 0]
DefaultCriteria == <<"branch_path", "attributes", "xpath", "css_selector">>
CriteriaLists ==
    {DefaultCriteria, <<>>, <<"xpath">>, <<"attributes", "branch_path">>,
     <<"css">>, <<"text", "position">>}

\* the trees a first snapshot can show
BaseAttributes == {<<>>, <<[key |-> KeyId, value |-> <<"1">>]>>}
FirstSnapshots ==
    {Highlighted([k \in NodeIds |->
                     [tag_name |-> tags[k], xpath |-> xpaths[k], attributes |-> attrs[k],
                      highlight_index |-> 0, parent |-> shape.parent[k],
                      children |-> shape.children[k]]], interactive) :
        shape \in TreeShapes,
        tags \in [NodeIds -> TagNames],
        xpaths \in {x \in [NodeIds -> XPaths] : x[TreeRoot] = x[2]},
        attrs \in {a \in [NodeIds -> BaseAttributes] : a[TreeRoot] = <<>> /\ a[3] = <<>>},
        interactive \in SUBSET NodeIds}

\* dict assignment attributes[key] = value: in place when the key is there,
\* else a new entry at the given position of the document order
SetAttribute(attributes, key, value, position) ==
    IF \E j \in 1 .. Len(attributes) : attributes[j].key = key
    THEN [j \in 1 .. Len(attributes) |->
             IF attributes[j].key = key THEN [key |-> key, value |-> value]
             ELSE attributes[j]]
    ELSE InsertAt(attributes, Min(position, Len(attributes)), [key |-> key, value |-> value])
RemoveAttribute(attributes, key) == SelectSeq(attributes, LAMBDA a : a.key # key)

\* the page re-renders: one thing about one node is different in the next
\* snapshot
Rerendered(tree, change, value, position) ==
    LET k == change.node
        node == tree[k]
    IN IF change.kind = "tag_name"
       THEN [tree EXCEPT ![k].tag_name = value]
       ELSE IF change.kind = "xpath"
       THEN [tree EXCEPT ![k].xpath = value]
       ELSE IF change.kind = "highlight"
       THEN Highlighted(tree, IF k \in InteractiveNodes(tree)
                              THEN InteractiveNodes(tree) \ {k}
                              ELSE InteractiveNodes(tree) \cup {k})
       ELSE IF change.kind = "attribute_removed"
       THEN [tree EXCEPT ![k].attributes = RemoveAttribute(node.attributes, change.key)]
       ELSE [tree EXCEPT ![k].attributes =
                SetAttribute(node.attributes, change.key, value, position)]

\* no snapshot is at hand
TreeRest ==
    /\ element_tree = <<>>
    /\ snapshot_before = <<>>
    /\ last_change = NoChange
    /\ dom_history_element = NoHistoryElement
    /\ source_node = 0
    /\ match_criteria = DefaultCriteria
    /\ found = NotFound
    /\ tpc = "idle"

\* rerun_history is not running
ReplayRest ==
    /\ replay_items = <<>>
    /\ max_retries = 0
    /\ skip_failures = TRUE
    /\ ri = 0
    /\ retry_count = 0
    /\ replay_results = <<>>
    /\ replay_state = <<>>
    /\ updated_actions = <<>>
    /\ replay_dispatched = <<>>
    /\ replay_trace = <<>>
    /\ rpc = "idle"

\* history element of one node of the snapshot
ConvertDomElementToHistoryElement ==
    /\ tpc = "snapshot"
    /\ \E k \in NodeIds :
          /\ dom_history_element' = convert_dom_element_to_history_element(element_tree, k)
          /\ source_node' = k
    /\ tpc' = "converted"
    /\ UNCHANGED <<element_tree, snapshot_before, last_change, match_criteria, found>>
    /\ UNCHANGED <<mhVars, mmVars, hostVars, batchVars, flagVars, runVars, replayVars>>

\* the next snapshot differs from the last in one respect
Rerender ==
    /\ tpc = "converted"
    /\ \E k \in NodeIds,
          kind \in {"tag_name", "xpath", "highlight", "attribute", "attribute_removed"},
          key \in AttributeKeys, value \in TagNames \cup XPaths \cup AttributeValues,
          position \in 0 .. 1 :
          /\ kind = "tag_name" =>
                value \in TagNames \ {element_tree[k].tag_name} /\ key = KeyId /\ position = 0
          /\ kind = "xpath" =>
                value \in XPaths \ {element_tree[k].xpath} /\ key = KeyId /\ position = 0
          /\ kind = "highlight" => value = <<"1">> /\ key = KeyId /\ position = 0
          /\ kind = "attribute_removed" =>
                /\ AttributeValue(element_tree[k].attributes, key) # <<>>
                /\ value = <<"1">> /\ position = 0
          /\ kind = "attribute" =>
                /\ value \in AttributeValues \ {AttributeValue(element_tree[k].attributes, key)}
                /\ (key # KeyId => value = <<"1">>)
                /\ (AttributeValue(element_tree[k].attributes, key) # <<>> => position = 0)
          /\ LET change == [kind |-> kind, node |-> k,
                            key |-> IF kind \in {"attribute", "attribute_removed"}
                                    THEN key ELSE <<>>]
             IN /\ last_change' = change
                /\ element_tree' = Rerendered(element_tree, change, value, position)
    /\ snapshot_before' = element_tree
    /\ tpc' = "rerendered"
    /\ UNCHANGED <<dom_history_element, source_node, match_criteria, found>>
    /\ UNCHANGED <<mhVars, mmVars, hostVars, batchVars, flagVars, runVars, replayVars>>

\* find_history_element_in_tree(dom_history_element, element_tree, criteria)
FindHistoryElementInTree ==
    /\ tpc \in {"converted", "rerendered"}
    /\ \E criteria \in CriteriaLists :
          /\ (tpc = "rerendered" => criteria = DefaultCriteria)
          /\ match_criteria' = criteria
          /\ found' = find_history_element_in_tree(dom_history_element, element_tree, criteria)
    /\ tpc' = "found"
    /\ UNCHANGED <<element_tree, snapshot_before, last_change, dom_history_element,
                   source_node>>
    /\ UNCHANGED <<mhVars, mmVars, hostVars, batchVars, flagVars, runVars, replayVars>>

TreeNext == ConvertDomElementToHistoryElement \/ Rerender \/ FindHistoryElementInTree

(***************************************************************************)
(* AgentState flags: pause(), resume(), stop()                             *)
(***************************************************************************)
FlagsRest == paused = FALSE /\ stopped = FALSE

NoEntry == [paused |-> FALSE, stopped |-> FALSE, failures |-> 0, records |-> 0]
NoError == [cause |-> "none", class |-> "none"]

\* AgentSettings.max_input_tokens (the default) and what _handle_step_error
\* takes off it
max_input_tokens == 128000
token_cut == 500

\* run() is not running
RunRest(at) ==
    /\ pc = at
    /\ max_steps = 1
    /\ hooks = FALSE
    /\ initial_actions = <<>>
    /\ step = 0
    /\ n_steps = 0
    /\ consecutive_failures = 0
    /\ last_result = <<>>
    /\ history = <<>>
    /\ conversation = <<>>
    /\ model_output = 0
    /\ state_ok = FALSE
    /\ step_entry = NoEntry
    /\ step_exits = <<>>
    /\ max_failures = MaxFailures
    /\ tool_calling_method = "function_calling"
    /\ validate_output = FALSE
    /\ planner_llm = FALSE
    /\ max_actions_per_step = RunMaxActions
    /\ error = NoError
    /\ pending_error = "none"
    /\ run_end = "none"
    /\ response_action = <<>>
    /\ mm_max_input_tokens = max_input_tokens

(***************************************************************************)
(* Agent.multi_act                                                         *)
(***************************************************************************)
ActionModels == [index : Idx \cup {0}]
HasIndex(action) == action.index # 0

RECURSIVE SeqsUpTo(_, _)
SeqsUpTo(S, n) ==
    IF n = 0 THEN {<<>>}
    ELSE LET shorter == SeqsUpTo(S, n - 1)
         IN shorter \cup {Append(q, x) : q \in {r \in shorter : Len(r) = n - 1}, x \in S}

Batches == SeqsUpTo(ActionModels, MaxActions)

\* multi_act is not running
BatchRest ==
    /\ actions = <<>>
    /\ check_for_new_elements = TRUE
    /\ i = 0
    /\ results = <<>>
    /\ cached_selector_map = [k \in Idx |-> NoElement]
    /\ new_selector_map = [k \in Idx |-> NoElement]
    /\ mpc = "idle"
    /\ dispatched = <<>>
    /\ env_pages = {}


\* a check that never looks at the target
DriftCheckIgnoresTarget(cached, new, index, strict) ==
    IF strict /\ ~(PathHashes(new) \subseteq PathHashes(cached)) THEN "new_elements"
    ELSE "pass"

\* a check that looks for new elements before it looks at the target
DriftCheckNewElementsFirst(cached, new, index, strict) ==
    IF strict /\ ~(PathHashes(new) \subseteq PathHashes(cached)) THEN "new_elements"
    ELSE IF TargetHash(cached, index) # TargetHash(new, index) THEN "element_changed"
    ELSE "pass"

\* a check that never looks for new elements
DriftCheckIgnoresNewElements(cached, new, index, strict) ==
    IF TargetHash(cached, index) # TargetHash(new, index) THEN "element_changed"
    ELSE "pass"

\* a check that wants the current hashes to be a superset of the cached ones
DriftCheckSuperset(cached, new, index, strict) ==
    IF TargetHash(cached, index) # TargetHash(new, index) THEN "element_changed"
    ELSE IF strict /\ ~(PathHashes(cached) \subseteq PathHashes(new)) THEN "new_elements"
    ELSE "pass"

\* The drift check made before an index-addressed action beyond the first:
\* the target's branch-path hash against the cached one, then (strict
\* checking) the current branch-path hashes against the cached set.
DriftCheck(cached, new, index, strict) ==
    IF TargetHash(cached, index) # TargetHash(new, index) THEN "element_changed"
    ELSE IF strict /\ ~(PathHashes(new) \subseteq PathHashes(cached)) THEN "new_elements"
    ELSE "pass"

\* a loop that only stops after the last action
StopsBatchOnlyAtEnd(result, pos, batch) == pos = Len(batch) - 1

\* results[-1].is_done or results[-1].error or i == len(actions) - 1
StopsBatch(result, pos, batch) ==
    result = "is_done" \/ result = "error" \/ pos = Len(batch) - 1

ActionOutcomes == {"ok", "error", "is_done"}

\* cached_selector_map = get_selector_map(); remove_highlights(); results = []
MultiActBegin ==
    /\ mpc = "begin"
    /\ cached_selector_map' = new_selector_map
    /\ results' = <<>>
    /\ i' = 0
    /\ dispatched' = <<>>
    /\ mpc' = IF actions = <<>> THEN "returned" ELSE "check"
    /\ UNCHANGED <<actions, check_for_new_elements, new_selector_map, env_pages>>
    /\ UNCHANGED <<mhVars, mmVars, hostVars, treeVars, replayVars, flagVars, runVars>>

\* top of the loop body: get_state and the drift check, made only for an
\* index-addressed action that is not the first of the batch
MultiActCheck ==
    /\ mpc = "check"
    /\ IF HasIndex(actions[i + 1]) /\ i # 0
       THEN \E page \in env_pages :
               LET verdict == DriftCheck(cached_selector_map, page,
                                         actions[i + 1].index, check_for_new_elements)
               IN /\ new_selector_map' = page
                  /\ results' = IF verdict = "pass" THEN results
                                ELSE Append(results, verdict)
                  /\ mpc' = IF verdict = "pass" THEN "guard" ELSE "returned"
       ELSE /\ mpc' = "guard"
            /\ UNCHANGED <<new_selector_map, results>>
    /\ UNCHANGED <<actions, check_for_new_elements, i, cached_selector_map,
                   dispatched, env_pages>>
    /\ UNCHANGED <<mhVars, mmVars, hostVars, treeVars, replayVars, flagVars, runVars>>

\* the task is cancelled while get_state is awaited (outside the try block)
MultiActCheckCancelled ==
    /\ mpc = "check"
    /\ HasIndex(actions[i + 1]) /\ i # 0
    /\ mpc' = "cancelled"
    /\ UNCHANGED <<actions, check_for_new_elements, i, results, cached_selector_map,
                   new_selector_map, dispatched, env_pages>>
    /\ UNCHANGED <<mhVars, mmVars, hostVars, treeVars, replayVars, flagVars, runVars>>

\* _raise_if_stopped_or_paused(), then the action goes to controller.act
MultiActGuard ==
    /\ mpc = "guard"
    /\ \E external \in BOOLEAN :
          IF external \/ stopped \/ paused
          THEN mpc' = "interrupted" /\ UNCHANGED dispatched
          ELSE mpc' = "act" /\ dispatched' = Append(dispatched, i)
    /\ UNCHANGED <<actions, check_for_new_elements, i, results, cached_selector_map,
                   new_selector_map, env_pages>>
    /\ UNCHANGED <<mhVars, mmVars, hostVars, treeVars, replayVars, flagVars, runVars>>

\* controller.act returns an ActionResult
MultiActActReturns ==
    /\ mpc = "act"
    /\ \E result \in ActionOutcomes :
          /\ results' = Append(results, result)
          /\ mpc' = IF StopsBatch(result, i, actions) THEN "returned" ELSE "sleep"
    /\ UNCHANGED <<actions, check_for_new_elements, i, cached_selector_map,
                   new_selector_map, dispatched, env_pages>>
    /\ UNCHANGED <<mhVars, mmVars, hostVars, treeVars, replayVars, flagVars, runVars>>

\* controller.act raises
MultiActActRaises ==
    /\ mpc = "act"
    /\ mpc' = "failed"
    /\ UNCHANGED <<actions, check_for_new_elements, i, results, cached_selector_map,
                   new_selector_map, dispatched, env_pages>>
    /\ UNCHANGED <<mhVars, mmVars, hostVars, treeVars, replayVars, flagVars, runVars>>

\* except asyncio.CancelledError: the action or the wait after it is cancelled
MultiActCancelled ==
    /\ mpc \in {"act", "sleep"}
    /\ results' = IF results = <<>> THEN <<"cancelled">> ELSE results
    /\ mpc' = "cancel_interrupted"
    /\ UNCHANGED <<actions, check_for_new_elements, i, cached_selector_map,
                   new_selector_map, dispatched, env_pages>>
    /\ UNCHANGED <<mhVars, mmVars, hostVars, treeVars, replayVars, flagVars, runVars>>

\* asyncio.sleep(wait_between_actions) is over: next iteration
MultiActSleep ==
    /\ mpc = "sleep"
    /\ i' = i + 1
    /\ mpc' = "check"
    /\ UNCHANGED <<actions, check_for_new_elements, results, cached_selector_map,
                   new_selector_map, dispatched, env_pages>>
    /\ UNCHANGED <<mhVars, mmVars, hostVars, treeVars, replayVars, flagVars, runVars>>

MultiActRunning == mpc \in {"begin", "check", "guard", "act", "sleep"}

\* pause(), resume() and stop() are called by the host or the signal handler
\* while run() is suspended
Interruptible ==
    IF pc = "standalone" THEN MultiActRunning
    ELSE pc \notin {"idle", "returned", "raised"}

pause ==
    /\ Interruptible
    /\ paused' = TRUE
    /\ UNCHANGED <<stopped, mhVars, mmVars, hostVars, treeVars, replayVars, batchVars, runVars>>

\* resume(): the flag.  What becomes of the browser._init() task it also
\* schedules is followed by ResumeRestartsBrowser under SpecResume; elsewhere
\* the browser is left out, a snapshot or an action being free to fail at
\* any time
resume ==
    /\ Interruptible
    /\ paused' = FALSE
    /\ UNCHANGED <<stopped, mhVars, mmVars, hostVars, treeVars, replayVars, batchVars, runVars>>

\* resume() on a paused agent: self.state.paused = False, then
\* loop.create_task(self.browser._init()), which nothing awaits
ResumeRestartsBrowser ==
    /\ Interruptible
    /\ paused
    /\ paused' = FALSE
    /\ browser_init' = TRUE
    /\ UNCHANGED <<stopped, done_callbacks, mhVars, mmVars, treeVars, replayVars,
                   batchVars, runVars>>

\* the task running browser._init() is over
BrowserInitCompletes ==
    /\ browser_init
    /\ browser_init' = FALSE
    /\ UNCHANGED <<paused, stopped, done_callbacks, mhVars, mmVars, treeVars,
                   replayVars, batchVars, runVars>>

stop ==
    /\ Interruptible
    /\ stopped' = TRUE
    /\ UNCHANGED <<paused, mhVars, mmVars, hostVars, treeVars, replayVars, batchVars, runVars>>

MultiActNext ==
    \/ MultiActBegin
    \/ MultiActCheck
    \/ MultiActCheckCancelled
    \/ MultiActGuard
    \/ MultiActActReturns
    \/ MultiActActRaises
    \/ MultiActCancelled
    \/ MultiActSleep

\* one batch run on its own against a page that mutates arbitrarily
InitBatch ==
    /\ MHRest /\ MMRest /\ HostRest
    /\ FlagsRest
    /\ TreeRest
    /\ ReplayRest
    /\ RunRest("standalone")
    /\ actions \in Batches
    /\ check_for_new_elements \in BOOLEAN
    /\ i = 0
    /\ results = <<>>
    /\ cached_selector_map = [k \in Idx |-> NoElement]
    /\ new_selector_map \in SelectorMaps
    /\ mpc = "begin"
    /\ dispatched = <<>>
    /\ env_pages = SelectorMaps

BatchNext == MultiActNext \/ pause \/ resume \/ stop

SpecBatch == InitBatch /\ [][BatchNext]_vars

(***************************************************************************)
(* Agent.run and Agent.step                                                *)
(***************************************************************************)
\* what the run explores: a page with two faces, short batches
PageA == [k \in Idx |-> [branch_path |-> "div/button", attributes |-> "id=a"]]
PageB == [k \in Idx |-> IF k = 1 THEN [branch_path |-> "div/a", attributes |-> "id=a"]
                        ELSE [branch_path |-> "div/button", attributes |-> "id=a"]]
RunPages == {PageA, PageB}
RunBatches == SeqsUpTo([index : {0, 1}], RunMaxActions)
InitialActionChoices == {<<>>, <<[index |-> 0]>>}
ToolCallingMethods == {"function_calling", "none"}

\* AgentHistory(model_output, result, ...) appended by _make_history_item
make_history_item(output, result) == [model_output |-> output, result |-> result]

\* the record run() appends when the for loop runs out
MaxStepsRecord == [model_output |-> 0, result |-> <<"max_steps_error">>]

\* a loop that forgets the record
OutOfStepsSilent(h) == h

\* the else branch of "for step in range(max_steps)"
OutOfSteps(h) == Append(h, MaxStepsRecord)

\* AgentHistoryList.is_done(): the last result of the last record is_done
is_done(h) ==
    /\ h # <<>>
    /\ h[Len(h)].result # <<>>
    /\ h[Len(h)].result[Len(h[Len(h)].result)] = "is_done"

\* MessageManager.add_state_message(state, result, ...): the state message
\* carries the prior action results; add_model_output(model_output)
add_state_message(conv, result) ==
    Append(conv, [kind |-> "state", of |-> 0, results |-> result])
add_model_output(conv, output) ==
    Append(conv, [kind |-> "output", of |-> output, results |-> <<>>])

\* MessageManager.add_plan(plan, position=-1): the plan goes in before the
\* last entry, the state message
add_plan(conv, position) ==
    InsertAt(conv, InsertIndex(Len(conv), position),
             [kind |-> "plan", of |-> 0, results |-> <<>>])

\* AgentStepInfo.is_last_step()
is_last_step(step_number, steps) == step_number >= steps - 1

\* the last-step warning, a HumanMessage added after the state message
LastStepWarning(conv, step_number, steps) ==
    IF is_last_step(step_number, steps)
    THEN Append(conv, [kind |-> "warning", of |-> 0, results |-> <<>>])
    ELSE conv

\* MessageManager._remove_last_state_message: drops the state message when
\* nothing but the last-step warning was added after it
RECURSIVE LastBelowWarnings(_)
LastBelowWarnings(conv) ==
    IF conv = <<>> THEN 0
    ELSE IF conv[Len(conv)].kind = "warning"
    THEN LastBelowWarnings(SubSeq(conv, 1, Len(conv) - 1))
    ELSE Len(conv)
remove_last_state_message(conv) ==
    IF LastBelowWarnings(conv) # 0 /\ conv[LastBelowWarnings(conv)].kind = "state"
    THEN RemoveAt(conv, LastBelowWarnings(conv) - 1)
    ELSE conv

\* "if len(parsed.action) > max_actions_per_step: parsed.action =
\* parsed.action[:max_actions_per_step]" in get_next_action
cut_actions_uncut(action, limit) == action
cut_actions(action, limit) ==
    IF Len(action) > limit THEN SubSeq(action, 1, limit) ELSE action

\* What reaches "except Exception" in step() for a given cause.
\* get_next_action wraps every exception of the provider call in
\* LLMException unless a tool calling method other than 'raw' is set; a
\* response that cannot be parsed becomes ValueError('Could not parse
\* response.'); a ValueError of the provider call that says 'Max token
\* limit reached' is wrapped in the same way; the planner call always wraps.
Raised(cause, method) ==
    [cause |-> cause,
     class |-> IF cause = "provider_rate_limit"
               THEN (IF method = "function_calling" THEN "rate_limit" ELSE "llm_exception")
               ELSE IF cause = "max_token_limit"
               THEN (IF method = "function_calling" THEN "value_error" ELSE "llm_exception")
               ELSE IF cause = "planner_failed" THEN "llm_exception"
               ELSE IF cause = "parse_failure" THEN "value_error"
               ELSE IF cause = "browser_closed" THEN "browser_closed"
               ELSE "other"]

\* the text of the ActionResult(error=...) that _handle_step_error returns
ErrorText(e) ==
    IF e.class = "llm_exception" THEN "llm_api_call_failed" ELSE e.cause

\* _handle_step_error after the counter: which branch is taken
HandlerPath(e) ==
    IF e.class = "browser_closed" THEN "browser_closed"
    ELSE IF e.class = "rate_limit" THEN "backoff"
    ELSE IF e.class = "value_error" /\ e.cause = "max_token_limit" THEN "cut_tokens"
    ELSE "return"

\* "_message_manager.settings.max_input_tokens = settings.max_input_tokens -
\* 500" in the 'Max token limit reached' branch
lowered(agent_budget, manager_budget) == agent_budget - token_cut

\* "for step in range(max_steps)" has another value for the loop variable
InRangeInclusive(k, steps) == k <= steps
InRange(k, steps) == k < steps

\* loop checks that leave the failure budget out
AfterChecksWithoutBudget(failures, budget, isStopped, isPaused, withHooks) ==
    IF isStopped THEN "stopped"
    ELSE IF isPaused THEN "pause_sleep"
    ELSE IF withHooks THEN "on_step_start"
    ELSE "step_get_state"

\* the checks of one loop iteration made without suspending: failure
\* budget, stop flag, then the paused wait; otherwise the hook or step()
AfterChecks(failures, budget, isStopped, isPaused, withHooks) ==
    IF failures >= budget THEN "failed"
    ELSE IF isStopped THEN "stopped"
    ELSE IF isPaused THEN "pause_sleep"
    ELSE IF withHooks THEN "on_step_start"
    ELSE "step_get_state"

\* step() is called: its locals are fresh
EnterStep ==
    /\ step_entry' = [paused |-> paused, stopped |-> stopped,
                      failures |-> consecutive_failures, records |-> Len(history)]
    /\ model_output' = 0
    /\ state_ok' = FALSE
    /\ error' = NoError
    /\ step_exits' = Append(step_exits, "running")

\* leave the loop checks towards target t; "failed" and "stopped" are the
\* two break statements, after which run() returns the history
GoTo(t) ==
    /\ pc' = IF t \in {"failed", "stopped"} THEN "returned" ELSE t
    /\ run_end' = IF t \in {"failed", "stopped"} THEN t
                  ELSE IF t = "raised" THEN "raised_hook" ELSE run_end
    /\ IF t = "step_get_state" THEN EnterStep
       ELSE UNCHANGED <<step_entry, model_output, state_ok, error, step_exits>>

\* multi_act has returned or raised: its locals are gone
MultiActGone ==
    /\ actions' = <<>>
    /\ check_for_new_elements' = TRUE
    /\ i' = 0
    /\ results' = <<>>
    /\ cached_selector_map' = [k \in Idx |-> NoElement]
    /\ dispatched' = <<>>
    /\ mpc' = "idle"
    /\ UNCHANGED <<new_selector_map, env_pages>>

\* run(): initial actions, if any, go through multi_act first
RunStart ==
    /\ pc = "start"
    /\ IF initial_actions # <<>>
       THEN /\ pc' = "initial_actions"
            /\ actions' = initial_actions
            /\ check_for_new_elements' = FALSE
            /\ mpc' = "begin"
       ELSE /\ pc' = "loop"
            /\ UNCHANGED <<actions, check_for_new_elements, mpc>>
    /\ UNCHANGED <<i, results, cached_selector_map, new_selector_map, dispatched, env_pages>>
    /\ UNCHANGED <<configVars, response_action, mm_max_input_tokens,
                   step, n_steps, consecutive_failures, last_result, history,
                   conversation, model_output, state_ok, step_entry, step_exits, error,
                   pending_error, run_end>>
    /\ UNCHANGED <<mhVars, mmVars, hostVars, treeVars, replayVars, flagVars>>

\* result = await multi_act(initial_actions); last_result = result
RunInitialActionsReturned ==
    /\ pc = "initial_actions"
    /\ mpc = "returned"
    /\ last_result' = results
    /\ pc' = "loop"
    /\ MultiActGone
    /\ UNCHANGED <<configVars, response_action, mm_max_input_tokens,
                   step, n_steps, consecutive_failures, history, conversation,
                   model_output, state_ok, step_entry, step_exits, error, pending_error,
                   run_end>>
    /\ UNCHANGED <<mhVars, mmVars, hostVars, treeVars, replayVars, flagVars>>

\* multi_act(initial_actions) raised: nothing in run() catches it
RunInitialActionsRaised ==
    /\ pc = "initial_actions"
    /\ mpc \in {"interrupted", "cancel_interrupted", "failed", "cancelled"}
    /\ pc' = "raised"
    /\ run_end' = "raised_initial_actions"
    /\ MultiActGone
    /\ UNCHANGED <<configVars, response_action, mm_max_input_tokens,
                   step, n_steps, consecutive_failures, last_result, history,
                   conversation, model_output, state_ok, step_entry, step_exits, error,
                   pending_error>>
    /\ UNCHANGED <<mhVars, mmVars, hostVars, treeVars, replayVars, flagVars>>

\* head of "for step in range(max_steps)": the else branch when the range is
\* used up, wait_for_resume() when paused, otherwise the checks
RunLoop ==
    /\ pc = "loop"
    /\ IF ~InRange(step, max_steps)
       THEN /\ history' = OutOfSteps(history)
            /\ pc' = "returned"
            /\ run_end' = "max_steps"
            /\ UNCHANGED <<step_entry, model_output, state_ok, error, step_exits>>
       ELSE /\ UNCHANGED history
            /\ IF paused THEN GoTo("wait_for_resume")
               ELSE GoTo(AfterChecks(consecutive_failures, max_failures, stopped, paused, hooks))
    /\ UNCHANGED <<configVars, response_action, mm_max_input_tokens,
                   step, n_steps, consecutive_failures, last_result,
                   conversation, pending_error>>
    /\ UNCHANGED <<mhVars, mmVars, hostVars, treeVars, replayVars, flagVars, batchVars>>

\* signal_handler.wait_for_resume() returns, at a time and with flags the
\* handler decides; reset(); then the checks
RunWaitForResume ==
    /\ pc = "wait_for_resume"
    /\ GoTo(AfterChecks(consecutive_failures, max_failures, stopped, paused, hooks))
    /\ UNCHANGED <<configVars, response_action, mm_max_input_tokens,
                   step, n_steps, consecutive_failures, last_result, history,
                   conversation, pending_error>>
    /\ UNCHANGED <<mhVars, mmVars, hostVars, treeVars, replayVars, flagVars, batchVars>>

\* while paused: await asyncio.sleep(0.2); if stopped: break
RunPauseSleep ==
    /\ pc = "pause_sleep"
    /\ IF stopped THEN GoTo(IF hooks THEN "on_step_start" ELSE "step_get_state")
       ELSE IF paused THEN GoTo("pause_sleep")
       ELSE GoTo(IF hooks THEN "on_step_start" ELSE "step_get_state")
    /\ UNCHANGED <<configVars, response_action, mm_max_input_tokens,
                   step, n_steps, consecutive_failures, last_result, history,
                   conversation, pending_error>>
    /\ UNCHANGED <<mhVars, mmVars, hostVars, treeVars, replayVars, flagVars, batchVars>>

\* await on_step_start(self), then step() is called; a raising hook ends run()
RunOnStepStart ==
    /\ pc = "on_step_start"
    /\ \E hookRaises \in BOOLEAN :
          IF hookRaises THEN GoTo("raised") ELSE GoTo("step_get_state")
    /\ UNCHANGED <<configVars, response_action, mm_max_input_tokens,
                   step, n_steps, consecutive_failures, last_result, history,
                   conversation, pending_error>>
    /\ UNCHANGED <<mhVars, mmVars, hostVars, treeVars, replayVars, flagVars, batchVars>>

\* the running call of step() ends in the given way
Exit(how) == [step_exits EXCEPT ![Len(step_exits)] = how]

\* _raise_if_stopped_or_paused() raises InterruptedError
Interrupted(external) == external \/ stopped \/ paused

\* except InterruptedError in step(): the synthetic result, then return; the
\* finally block finds the local result empty and appends nothing
StepDiscarded(checkpoint) ==
    /\ last_result' = <<"paused_mid_step">>
    /\ step_exits' = Exit(checkpoint)
    /\ pc' = "after_step"
    /\ UNCHANGED <<history, consecutive_failures>>

\* except asyncio.CancelledError in step(): the Ctrl+C result; the
\* InterruptedError raised next is dropped by the return in the finally
\* block, the local result being empty
StepCancelled ==
    /\ last_result' = <<"ctrl_c">>
    /\ step_exits' = Exit("cancelled")
    /\ pc' = "after_step"
    /\ UNCHANGED <<history, consecutive_failures>>

\* state = await get_state(...); _raise_if_stopped_or_paused();
\* add_state_message(state, last_result, ...); then the planner runs if one
\* is configured, else the last-step warning is added and the model is called
StepGetState ==
    /\ pc = "step_get_state"
    /\ \E page \in env_pages, external \in BOOLEAN,
          outcome \in {"ok", "browser_closed", "page_error", "cancelled"} :
          IF outcome = "ok" THEN
              /\ new_selector_map' = page
              /\ state_ok' = TRUE
              /\ IF Interrupted(external)
                 THEN StepDiscarded("after_snapshot") /\ UNCHANGED conversation
                 ELSE /\ conversation' =
                            IF planner_llm
                            THEN add_state_message(conversation, last_result)
                            ELSE LastStepWarning(
                                     add_state_message(conversation, last_result),
                                     step, max_steps)
                      /\ pc' = IF planner_llm THEN "step_run_planner" ELSE "step_model_call"
                      /\ UNCHANGED <<last_result, step_exits, history, consecutive_failures>>
              /\ UNCHANGED error
          ELSE IF outcome = "cancelled" THEN
              /\ page = PageA /\ external = FALSE
              /\ StepCancelled
              /\ UNCHANGED <<new_selector_map, state_ok, conversation, error>>
          ELSE
              /\ page = PageA /\ external = FALSE
              /\ error' = Raised(outcome, tool_calling_method)
              /\ pc' = "step_handle_error"
              /\ UNCHANGED <<new_selector_map, state_ok, conversation, last_result,
                             step_exits, history, consecutive_failures>>
    /\ UNCHANGED <<actions, check_for_new_elements, i, results, cached_selector_map,
                   mpc, dispatched, env_pages>>
    /\ UNCHANGED <<configVars, response_action, mm_max_input_tokens,
                   step, n_steps, model_output, step_entry, pending_error,
                   run_end>>
    /\ UNCHANGED <<mhVars, mmVars, hostVars, treeVars, replayVars, flagVars>>

\* plan = await _run_planner(); add_plan(plan, position=-1); the last-step
\* warning.  A planner call that fails raises LLMException and one that is
\* cancelled CancelledError, both outside the try block that removes the
\* state message
StepRunPlanner ==
    /\ pc = "step_run_planner"
    /\ \E outcome \in {"ok", "planner_failed", "cancelled"} :
          IF outcome = "ok" THEN
              /\ conversation' = LastStepWarning(add_plan(conversation, -1), step, max_steps)
              /\ pc' = "step_model_call"
              /\ UNCHANGED <<last_result, step_exits, history, consecutive_failures, error>>
          ELSE IF outcome = "cancelled" THEN
              /\ StepCancelled
              /\ UNCHANGED <<conversation, error>>
          ELSE
              /\ error' = Raised(outcome, tool_calling_method)
              /\ pc' = "step_handle_error"
              /\ UNCHANGED <<conversation, last_result, step_exits, history,
                             consecutive_failures>>
    /\ UNCHANGED <<configVars, response_action, mm_max_input_tokens, step, n_steps,
                   model_output, state_ok, step_entry, pending_error, run_end>>
    /\ UNCHANGED <<mhVars, mmVars, hostVars, treeVars, replayVars, flagVars, batchVars>>

\* model_output = await get_next_action(...); _raise_if_stopped_or_paused();
\* n_steps += 1; then the new-step callback is awaited.  The 'Max token
\* limit reached' error is explored where get_next_action does not wrap it
StepModelCall ==
    /\ pc = "step_model_call"
    /\ pending_error' = "none"
    /\ \E batch \in RunBatches, external \in BOOLEAN,
          outcome \in {"ok", "parse_failure", "provider_rate_limit", "max_token_limit",
                       "cancelled"} :
          /\ (outcome # "ok" => (batch = <<>> /\ external = FALSE))
          /\ (outcome = "max_token_limit" => tool_calling_method = "function_calling")
          /\ response_action' = IF outcome = "ok" /\ ~Interrupted(external) THEN batch ELSE <<>>
          /\ IF outcome = "ok" THEN
                IF Interrupted(external)
                THEN /\ (batch = <<>>)
                     /\ conversation' = remove_last_state_message(conversation)
                     /\ StepDiscarded("after_model_call")
                     /\ UNCHANGED <<actions, n_steps, model_output, error>>
                ELSE /\ actions' = cut_actions(batch, max_actions_per_step)
                     /\ n_steps' = n_steps + 1
                     /\ model_output' = n_steps + 1
                     /\ pc' = "step_before_commit"
                     /\ UNCHANGED <<conversation, last_result, step_exits, history,
                                    consecutive_failures, error>>
             ELSE IF outcome = "cancelled" THEN
                /\ conversation' = remove_last_state_message(conversation)
                /\ StepDiscarded("model_call_cancelled")
                /\ UNCHANGED <<actions, n_steps, model_output, error>>
             ELSE
                /\ conversation' = remove_last_state_message(conversation)
                /\ error' = Raised(outcome, tool_calling_method)
                /\ pc' = "step_handle_error"
                /\ UNCHANGED <<actions, n_steps, model_output, last_result, step_exits,
                               history, consecutive_failures>>
    /\ UNCHANGED <<check_for_new_elements, i, results, cached_selector_map,
                   new_selector_map, mpc, dispatched, env_pages>>
    /\ UNCHANGED <<configVars, mm_max_input_tokens, step, state_ok, step_entry, run_end>>
    /\ UNCHANGED <<mhVars, mmVars, hostVars, treeVars, replayVars, flagVars>>

\* the new-step callback returns or raises; _remove_last_state_message();
\* _raise_if_stopped_or_paused(); add_model_output(model_output);
\* multi_act(model_output.action) starts
StepCommit ==
    /\ pc = "step_before_commit"
    /\ response_action' = <<>>
    /\ \E external \in BOOLEAN, callbackRaises \in BOOLEAN :
          /\ (callbackRaises => (hooks /\ external = FALSE))
          /\ IF callbackRaises
             THEN /\ conversation' = remove_last_state_message(conversation)
                  /\ error' = Raised("new_step_callback", tool_calling_method)
                  /\ pc' = "step_handle_error"
                  /\ UNCHANGED <<check_for_new_elements, mpc, last_result, step_exits,
                                 history, consecutive_failures>>
             ELSE IF Interrupted(external)
             THEN /\ conversation' = remove_last_state_message(
                                         remove_last_state_message(conversation))
                  /\ StepDiscarded("before_commit")
                  /\ UNCHANGED <<check_for_new_elements, mpc, error>>
             ELSE /\ conversation' = add_model_output(
                                         remove_last_state_message(conversation), model_output)
                  /\ check_for_new_elements' = TRUE
                  /\ mpc' = "begin"
                  /\ pc' = "step_multi_act"
                  /\ UNCHANGED <<last_result, step_exits, history, consecutive_failures,
                                 error>>
    /\ UNCHANGED <<actions, i, results, cached_selector_map, new_selector_map,
                   dispatched, env_pages>>
    /\ UNCHANGED <<configVars, mm_max_input_tokens, step, n_steps, model_output, state_ok,
                   step_entry,
                   pending_error, run_end>>
    /\ UNCHANGED <<mhVars, mmVars, hostVars, treeVars, replayVars, flagVars>>

\* what the finally block of step() appends: nothing when the result list is
\* empty or no state was taken
RecordStep(h, haveState, output, result) ==
    IF result # <<>> /\ haveState THEN Append(h, make_history_item(output, result)) ELSE h

\* multi_act returned: last_result = result; consecutive_failures = 0; finally
StepMultiActReturned ==
    /\ pc = "step_multi_act"
    /\ mpc = "returned"
    /\ last_result' = results
    /\ consecutive_failures' = 0
    /\ history' = RecordStep(history, state_ok, model_output, results)
    /\ step_exits' = Exit(IF results # <<>> THEN "completed" ELSE "no_result")
    /\ pc' = "after_step"
    /\ MultiActGone
    /\ UNCHANGED <<configVars, response_action, mm_max_input_tokens,
                   step, n_steps, conversation, model_output, state_ok,
                   step_entry, error, pending_error, run_end>>
    /\ UNCHANGED <<mhVars, mmVars, hostVars, treeVars, replayVars, flagVars>>

\* an action was in flight when multi_act was cancelled
InFlight == Len(dispatched) > Len(results) \/ results = <<"cancelled">>

\* multi_act raised InterruptedError (pause / stop seen in the action loop,
\* or an action or the wait after it cancelled) or let CancelledError through
StepMultiActInterrupted ==
    /\ pc = "step_multi_act"
    /\ mpc \in {"interrupted", "cancel_interrupted", "cancelled"}
    /\ IF mpc = "cancelled" THEN StepCancelled
       ELSE StepDiscarded(IF mpc = "interrupted" THEN "action_loop"
                          ELSE IF InFlight THEN "action_cancelled" ELSE "wait_cancelled")
    /\ MultiActGone
    /\ UNCHANGED <<configVars, response_action, mm_max_input_tokens,
                   step, n_steps, conversation, model_output, state_ok,
                   step_entry, error, pending_error, run_end>>
    /\ UNCHANGED <<mhVars, mmVars, hostVars, treeVars, replayVars, flagVars>>

\* multi_act raised another exception: except Exception in step()
StepMultiActFailed ==
    /\ pc = "step_multi_act"
    /\ mpc = "failed"
    /\ \E cause \in {"browser_closed", "page_error"} :
          error' = Raised(cause, tool_calling_method)
    /\ pc' = "step_handle_error"
    /\ MultiActGone
    /\ UNCHANGED <<configVars, response_action, mm_max_input_tokens,
                   step, n_steps, consecutive_failures, last_result, history,
                   conversation, model_output, state_ok, step_entry, step_exits,
                   pending_error, run_end>>
    /\ UNCHANGED <<mhVars, mmVars, hostVars, treeVars, replayVars, flagVars>>

\* _handle_step_error returned its single ActionResult: last_result = result;
\* then the finally block of step()
HandlerReturns(text, how) ==
    /\ last_result' = <<text>>
    /\ history' = RecordStep(history, state_ok, model_output, <<text>>)
    /\ pending_error' = text
    /\ step_exits' = Exit(how)
    /\ pc' = "after_step"

\* _handle_step_error raised (its backoff sleep was cancelled): the counter
\* is already incremented, last_result is not set and the return in the
\* finally block of step() drops the exception
HandlerRaises ==
    /\ step_exits' = Exit("handler_raised")
    /\ pc' = "after_step"
    /\ UNCHANGED <<last_result, history, pending_error>>

\* result = await _handle_step_error(e): the counter, then the branch; the
\* 'Max token limit reached' branch sets the manager's budget and calls
\* cut_messages(), which shortens the newest message (the entries stay)
StepHandleError ==
    /\ pc = "step_handle_error"
    /\ consecutive_failures' = consecutive_failures + 1
    /\ IF HandlerPath(error) = "browser_closed"
       THEN HandlerReturns("browser_closed", "browser_closed")
       ELSE IF HandlerPath(error) = "backoff"
       THEN /\ pc' = "step_backoff"
            /\ UNCHANGED <<last_result, history, pending_error, step_exits>>
       ELSE IF HandlerPath(error) = "cut_tokens"
       THEN HandlerReturns(ErrorText(error), "cut_tokens")
       ELSE HandlerReturns(ErrorText(error), "error")
    /\ mm_max_input_tokens' =
          IF HandlerPath(error) = "cut_tokens"
          THEN lowered(max_input_tokens, mm_max_input_tokens)
          ELSE mm_max_input_tokens
    /\ UNCHANGED <<configVars, response_action, step, n_steps, conversation, model_output,
                   state_ok, step_entry, error, run_end>>
    /\ UNCHANGED <<mhVars, mmVars, hostVars, treeVars, replayVars, flagVars, batchVars>>

\* await asyncio.sleep(retry_delay) in _handle_step_error is over or cancelled
StepBackoff ==
    /\ pc = "step_backoff"
    /\ \E sleepCancelled \in BOOLEAN :
          IF sleepCancelled THEN HandlerRaises
          ELSE HandlerReturns(ErrorText(error), "error_after_backoff")
    /\ UNCHANGED <<configVars, response_action, mm_max_input_tokens,
                   step, n_steps, consecutive_failures, conversation,
                   model_output, state_ok, step_entry, error, run_end>>
    /\ UNCHANGED <<mhVars, mmVars, hostVars, treeVars, replayVars, flagVars, batchVars>>

\* step() has returned: its locals are gone
StepGone ==
    /\ model_output' = 0
    /\ state_ok' = FALSE
    /\ error' = NoError
    /\ step_entry' = NoEntry

\* back in run(): on_step_end, then "if history.is_done():" with the
\* validation gate, or the next iteration
RunAfterStep ==
    /\ pc = "after_step"
    /\ \E hookRaises \in BOOLEAN :
          /\ (hookRaises => hooks)
          /\ IF hookRaises
             THEN pc' = "raised" /\ run_end' = "raised_hook" /\ UNCHANGED step
             ELSE IF is_done(history)
             THEN /\ pc' = IF validate_output /\ step < max_steps - 1
                           THEN "validate" ELSE "log_completion"
                  /\ UNCHANGED <<step, run_end>>
             ELSE pc' = "loop" /\ step' = step + 1 /\ UNCHANGED run_end
    /\ StepGone
    /\ UNCHANGED <<configVars, response_action, mm_max_input_tokens,
                   n_steps, consecutive_failures, last_result, history,
                   conversation, step_exits, pending_error>>
    /\ UNCHANGED <<mhVars, mmVars, hostVars, treeVars, replayVars, flagVars, batchVars>>

\* await _validate_output(): valid, or invalid with the feedback put into
\* last_result and "continue", or the snapshot / validator call raises
RunValidate ==
    /\ pc = "validate"
    /\ \E verdict \in {"valid", "invalid", "raises"} :
          IF verdict = "valid"
          THEN pc' = "log_completion" /\ UNCHANGED <<last_result, step, run_end>>
          ELSE IF verdict = "invalid"
          THEN /\ last_result' = <<"validator_feedback">>
               /\ step' = step + 1
               /\ pc' = "loop"
               /\ UNCHANGED run_end
          ELSE pc' = "raised" /\ run_end' = "raised_validator" /\ UNCHANGED <<last_result, step>>
    /\ UNCHANGED <<configVars, response_action, mm_max_input_tokens,
                   n_steps, consecutive_failures, history, conversation,
                   model_output, state_ok, step_entry, step_exits, error, pending_error>>
    /\ UNCHANGED <<mhVars, mmVars, hostVars, treeVars, replayVars, flagVars, batchVars>>

\* log_completion calls register_done_callback(self.state.history) when
\* one is registered
DoneCallback == done_callbacks' = IF hooks THEN done_callbacks + 1 ELSE done_callbacks

\* await log_completion(): the done callback, if registered, is called with
\* the history and may raise; then break and return
RunLogCompletion ==
    /\ pc = "log_completion"
    /\ \E callbackRaises \in BOOLEAN :
          /\ (callbackRaises => hooks)
          /\ IF callbackRaises
             THEN pc' = "raised" /\ run_end' = "raised_done_callback"
             ELSE pc' = "returned" /\ run_end' = "done"
    /\ DoneCallback
    /\ UNCHANGED <<configVars, response_action, mm_max_input_tokens,
                   step, n_steps, consecutive_failures, last_result, history,
                   conversation, model_output, state_ok, step_entry, step_exits, error,
                   pending_error>>
    /\ UNCHANGED <<mhVars, mmVars, browser_init, treeVars, replayVars, flagVars, batchVars>>

\* the longest runs are explored without hooks, initial actions and
\* validation, with the largest failure budget
PlainConfig ==
    /\ hooks = FALSE
    /\ initial_actions = <<>>
    /\ validate_output = FALSE
    /\ max_failures = MaxFailures
    /\ tool_calling_method = "function_calling"
    /\ planner_llm = FALSE
    /\ max_actions_per_step = RunMaxActions

\* a planner and a cut of the action list are explored in runs that are
\* plain otherwise
PlannerConfig ==
    /\ hooks = FALSE
    /\ initial_actions = <<>>
    /\ validate_output = FALSE
    /\ max_failures = MaxFailures
    /\ tool_calling_method = "function_calling"
    /\ max_steps < MaxSteps

RunNext ==
    \/ RunStart
    \/ RunInitialActionsReturned
    \/ RunInitialActionsRaised
    \/ RunLoop
    \/ RunWaitForResume
    \/ RunPauseSleep
    \/ RunOnStepStart
    \/ StepGetState
    \/ StepRunPlanner
    \/ StepModelCall
    \/ StepCommit
    \/ StepMultiActReturned
    \/ StepMultiActInterrupted
    \/ StepMultiActFailed
    \/ StepHandleError
    \/ StepBackoff
    \/ RunAfterStep
    \/ RunValidate
    \/ RunLogCompletion

Init ==
    /\ MHRest /\ MMRest /\ HostRest
    /\ FlagsRest
    /\ TreeRest
    /\ ReplayRest
    /\ actions = <<>>
    /\ check_for_new_elements = TRUE
    /\ i = 0
    /\ results = <<>>
    /\ cached_selector_map = [k \in Idx |-> NoElement]
    /\ new_selector_map = [k \in Idx |-> NoElement]
    /\ mpc = "idle"
    /\ dispatched = <<>>
    /\ env_pages = RunPages
    /\ pc = "start"
    /\ max_steps \in 1 .. MaxSteps
    /\ hooks \in BOOLEAN
    /\ initial_actions \in InitialActionChoices
    /\ max_failures \in 1 .. MaxFailures
    /\ tool_calling_method \in ToolCallingMethods
    /\ validate_output \in BOOLEAN
    /\ planner_llm \in BOOLEAN
    /\ max_actions_per_step \in 1 .. RunMaxActions
    /\ (max_steps = MaxSteps => PlainConfig)
    /\ ((planner_llm \/ max_actions_per_step < RunMaxActions) => PlannerConfig)
    /\ step = 0
    /\ n_steps = 0
    /\ consecutive_failures = 0
    /\ last_result = <<>>
    /\ history = <<>>
    /\ conversation = <<>>
    /\ model_output = 0
    /\ state_ok = FALSE
    /\ step_entry = NoEntry
    /\ step_exits = <<>>
    /\ error = NoError
    /\ pending_error = "none"
    /\ run_end = "none"
    /\ response_action = <<>>
    /\ mm_max_input_tokens = max_input_tokens

Next == RunNext \/ MultiActNext \/ pause \/ resume \/ stop

Spec == Init /\ [][Next]_vars

(***************************************************************************)
(* MessageManager (agent/message_manager/service.py): the recorded         *)
(* interactions and the message sequence built from them.                  *)
(***************************************************************************)
\* Python's seq[start:] for any integer start
SliceFrom(seq, start) ==
    LET n == Len(seq)
        first == IF start < 0 THEN (IF n + start < 0 THEN 0 ELSE n + start)
                 ELSE (IF start > n THEN n ELSE start)
    IN SubSeq(seq, first + 1, n)

\* self.past_steps[-self.max_num_of_msg_in_history :] if self.past_steps else []
recent_steps(steps, limit) ==
    IF steps = <<>> THEN <<>> ELSE SliceFrom(steps, 0 - limit)

\* the tool message of step k of the recent steps: the results kept in
\* memory, with the current results merged into the last one
ToolContent(recent, k, current_results) ==
    [memory |-> recent[k].in_memory,
     current |-> current_results /\ k = Len(recent)]

\* the two messages of one recent step: the tool call carrying the model
\* output and its tool message, both with id str(k)
StepMessages(recent, k, current_results) ==
    <<[type |-> "ai", id |-> k, output |-> recent[k].output,
       content |-> [memory |-> FALSE, current |-> FALSE]],
      [type |-> "tool", id |-> k, output |-> 0,
       content |-> ToolContent(recent, k, current_results)]>>

RECURSIVE StepsMessages(_, _, _)
StepsMessages(recent, k, current_results) ==
    IF k > Len(recent) THEN <<>>
    ELSE StepMessages(recent, k, current_results)
             \o StepsMessages(recent, k + 1, current_results)

\* get_messages: system message, task message, the placeholder call and
\* response when there are no recent steps, else two messages per recent
\* step, then the state message
get_messages(steps, limit, current_results) ==
    LET recent == recent_steps(steps, limit)
        fixed(t) == [type |-> t, id |-> 0, output |-> 0,
                     content |-> [memory |-> FALSE, current |-> FALSE]]
    IN <<fixed("system"), fixed("task")>>
           \o (IF recent = <<>>
               THEN <<[type |-> "ai", id |-> 1, output |-> 0,
                       content |-> [memory |-> FALSE, current |-> FALSE]],
                      [type |-> "tool", id |-> 1, output |-> 0,
                       content |-> [memory |-> FALSE, current |-> current_results]]>>
               ELSE StepsMessages(recent, 1, current_results))
           \o <<fixed("human")>>

\* add_interaction(model_output, results): the pair is appended; the model
\* outputs are numbered in the order they were recorded
AddInteraction ==
    /\ Len(past_steps) < MaxPastSteps
    /\ \E in_memory \in BOOLEAN :
          past_steps' = Append(past_steps,
                               [output |-> Len(past_steps) + 1, in_memory |-> in_memory])
    /\ UNCHANGED <<max_num_of_msg_in_history, got_messages>>
    /\ UNCHANGED <<mhVars, hostVars, batchVars, flagVars, runVars, treeVars, replayVars>>

\* await get_messages(state, step_info, current_results): what it returns,
\* and how many interactions were recorded when it was called
GetMessages ==
    /\ \E current_results \in BOOLEAN :
          got_messages' =
              [recorded |-> Len(past_steps),
               messages |-> get_messages(past_steps, max_num_of_msg_in_history,
                                         current_results)]
    /\ UNCHANGED <<past_steps, max_num_of_msg_in_history>>
    /\ UNCHANGED <<mhVars, hostVars, batchVars, flagVars, runVars, treeVars, replayVars>>

MMNext == AddInteraction \/ GetMessages

\* a MessageManager as constructed: no past steps, any limit >= 0
InitMM ==
    /\ MHRest /\ HostRest /\ BatchRest /\ FlagsRest /\ RunRest("idle") /\ TreeRest /\ ReplayRest
    /\ past_steps = <<>>
    /\ max_num_of_msg_in_history \in 0 .. MaxHistoryLimit
    /\ got_messages = [recorded |-> 0, messages |-> <<>>]

SpecMM == InitMM /\ [][MMNext]_vars

(***************************************************************************)
(* Agent.take_step (agent/service.py): one step() driven by the host,      *)
(* then the completion handling.                                           *)
(***************************************************************************)
\* what take_step leaves alone besides pc, run_end and the callback count
TakeStepKeeps ==
    /\ UNCHANGED <<configVars, response_action, mm_max_input_tokens,
                   step, n_steps, consecutive_failures, history, conversation,
                   pending_error>>
    /\ UNCHANGED <<mhVars, mmVars, browser_init, treeVars, replayVars, flagVars, batchVars>>

\* await self.step(): called without step_info
TakeStepCall ==
    /\ pc = "take_step"
    /\ pc' = "step_get_state"
    /\ EnterStep
    /\ UNCHANGED <<run_end, last_result, done_callbacks>>
    /\ TakeStepKeeps

\* step() has returned: "if self.state.history.is_done():" with the
\* validation, else "return False, False"
TakeStepAfterStep ==
    /\ pc = "after_step"
    /\ IF is_done(history)
       THEN /\ pc' = IF validate_output THEN "take_step_validate"
                     ELSE "take_step_log_completion"
            /\ UNCHANGED run_end
       ELSE pc' = "returned" /\ run_end' = "not_done"
    /\ StepGone
    /\ UNCHANGED <<step_exits, last_result, done_callbacks>>
    /\ TakeStepKeeps

\* "if not await self._validate_output(): return True, False"
TakeStepValidate ==
    /\ pc = "take_step_validate"
    /\ \E verdict \in {"valid", "invalid", "raises"} :
          IF verdict = "valid"
          THEN pc' = "take_step_log_completion" /\ UNCHANGED <<last_result, run_end>>
          ELSE IF verdict = "invalid"
          THEN /\ last_result' = <<"validator_feedback">>
               /\ pc' = "returned"
               /\ run_end' = "done_invalid"
          ELSE pc' = "raised" /\ run_end' = "raised_validator" /\ UNCHANGED last_result
    /\ UNCHANGED <<model_output, state_ok, step_entry, step_exits, error, done_callbacks>>
    /\ TakeStepKeeps

\* await self.log_completion(): it calls the done callback, which may raise
TakeStepLogCompletion ==
    /\ pc = "take_step_log_completion"
    /\ \E callbackRaises \in BOOLEAN :
          /\ (callbackRaises => hooks)
          /\ IF callbackRaises
             THEN pc' = "raised" /\ run_end' = "raised_done_callback"
             ELSE pc' = "take_step_done_callback" /\ UNCHANGED run_end
    /\ DoneCallback
    /\ UNCHANGED <<model_output, state_ok, step_entry, step_exits, error, last_result>>
    /\ TakeStepKeeps

\* "if self.register_done_callback:" after log_completion() calls the
\* callback with the history; then "return True, True"
TakeStepDoneCallback ==
    /\ pc = "take_step_done_callback"
    /\ \E callbackRaises \in BOOLEAN :
          /\ (callbackRaises => hooks)
          /\ IF callbackRaises
             THEN pc' = "raised" /\ run_end' = "raised_done_callback"
             ELSE pc' = "returned" /\ run_end' = "done"
    /\ DoneCallback
    /\ UNCHANGED <<model_output, state_ok, step_entry, step_exits, error, last_result>>
    /\ TakeStepKeeps

TakeStepNext ==
    \/ TakeStepCall
    \/ StepGetState
    \/ StepRunPlanner
    \/ StepModelCall
    \/ StepCommit
    \/ StepMultiActReturned
    \/ StepMultiActInterrupted
    \/ StepMultiActFailed
    \/ StepHandleError
    \/ StepBackoff
    \/ TakeStepAfterStep
    \/ TakeStepValidate
    \/ TakeStepLogCompletion
    \/ TakeStepDoneCallback
    \/ MultiActNext
    \/ pause
    \/ resume
    \/ stop

\* an agent on which the host calls take_step(); without step_info no step
\* is the last one (step 0 of MaxSteps)
InitTakeStep ==
    /\ MHRest /\ MMRest /\ HostRest /\ FlagsRest /\ TreeRest /\ ReplayRest
    /\ actions = <<>>
    /\ check_for_new_elements = TRUE
    /\ i = 0
    /\ results = <<>>
    /\ cached_selector_map = [k \in Idx |-> NoElement]
    /\ new_selector_map = [k \in Idx |-> NoElement]
    /\ mpc = "idle"
    /\ dispatched = <<>>
    /\ env_pages = RunPages
    /\ pc = "take_step"
    /\ max_steps = MaxSteps
    /\ hooks \in BOOLEAN
    /\ initial_actions = <<>>
    /\ max_failures \in 1 .. MaxFailures
    /\ tool_calling_method \in ToolCallingMethods
    /\ validate_output \in BOOLEAN
    /\ planner_llm \in BOOLEAN
    /\ max_actions_per_step \in 1 .. RunMaxActions
    /\ step = 0
    /\ n_steps = 0
    /\ consecutive_failures = 0
    /\ last_result = <<>>
    /\ history = <<>>
    /\ conversation = <<>>
    /\ model_output = 0
    /\ state_ok = FALSE
    /\ step_entry = NoEntry
    /\ step_exits = <<>>
    /\ error = NoError
    /\ pending_error = "none"
    /\ run_end = "none"
    /\ response_action = <<>>
    /\ mm_max_input_tokens = max_input_tokens

SpecTakeStep == InitTakeStep /\ [][TakeStepNext]_vars

InitMH == MHRest /\ MMRest /\ HostRest /\ BatchRest /\ FlagsRest /\ RunRest("idle") /\ TreeRest /\ ReplayRest

SpecMH == InitMH /\ [][MHNext]_vars


(***************************************************************************)
(* Agent.rerun_history (agent/service.py): replay of a recorded history    *)
(* against the page as it is now.                                          *)
(***************************************************************************)
\* a recorded action: its index at capture time (0 = no index) and the
\* interacted element stored with it (NoHistoryElement = None)
RecordedAction(tree, k) ==
    [index |-> IF k = 0 THEN 0 ELSE tree[k].highlight_index,
     element |-> IF k = 0 THEN NoHistoryElement
                 ELSE convert_dom_element_to_history_element(tree, k)]

\* the recorded steps explored: no action, one action, two actions
RecordedSteps(tree) ==
    {<<>>,
     <<RecordedAction(tree, 2)>>,
     <<RecordedAction(tree, 0), RecordedAction(tree, 3)>>,
     <<RecordedAction(tree, 2), RecordedAction(tree, 3)>>}

\* the pages a recording is taken from: nodes 2 and 3 are interactive
RecordedSnapshots ==
    {t \in FirstSnapshots :
        /\ \A k \in NodeIds : t[k].attributes = <<>>
        /\ \A k \in NodeIds : t[k].tag_name = <<"d", "i", "v">>
        /\ t[2].xpath = <<"/", "b", "o", "d", "y", "/", "a", "[", "1", "]">>
        /\ InteractiveNodes(t) = {2, 3}}

\* a re-targeting that keeps the recorded index
update_action_indices_keeps_index(historical_element, action, tree) ==
    IF historical_element = NoHistoryElement THEN [found |-> TRUE, action |-> action]
    ELSE LET current_element ==
                 find_history_element_in_tree(historical_element, tree, DefaultCriteria).node
         IN IF current_element = 0 THEN [found |-> FALSE, action |-> action]
            ELSE [found |-> TRUE, action |-> action]

\* _update_action_indices: the action as it is when no element was stored;
\* None (found = FALSE) when the element is not in the tree; else the action
\* with the index of the matched node
update_action_indices(historical_element, action, tree) ==
    IF historical_element = NoHistoryElement THEN [found |-> TRUE, action |-> action]
    ELSE LET current_element ==
                 find_history_element_in_tree(historical_element, tree, DefaultCriteria).node
         IN IF current_element = 0 THEN [found |-> FALSE, action |-> action]
            ELSE [found |-> TRUE,
                  action |-> [action EXCEPT !.index = tree[current_element].highlight_index]]

\* the loop of _execute_history_step over the recorded actions from
\* position j on: the actions updated so far (set_index changes the recorded
\* action itself) and whether one was not found
RECURSIVE UpdateFrom(_, _, _)
UpdateFrom(recorded, j, tree) ==
    IF j > Len(recorded) THEN [actions |-> recorded, missing |-> FALSE]
    ELSE LET u == update_action_indices(recorded[j].element, recorded[j], tree)
         IN IF ~u.found THEN [actions |-> recorded, missing |-> TRUE]
            ELSE UpdateFrom([recorded EXCEPT ![j] = u.action], j + 1, tree)

\* one more entry in the trace of the step being replayed
Traced(event) == [replay_trace EXCEPT ![ri + 1] = Append(@, event)]

\* rerun_history is called (no initial actions)
ReplayStart ==
    /\ rpc = "start"
    /\ rpc' = "loop"
    /\ UNCHANGED <<replay_items, max_retries, skip_failures, ri, retry_count,
                   replay_results, replay_state, updated_actions, replay_dispatched,
                   replay_trace>>
    /\ UNCHANGED <<mhVars, mmVars, hostVars, batchVars, flagVars, runVars, treeVars>>

\* head of "for i, history_item in enumerate(history.history)"
ReplayLoop ==
    /\ rpc = "loop"
    /\ IF ri >= Len(replay_items)
       THEN /\ rpc' = "returned"
            /\ UNCHANGED <<ri, retry_count, replay_results>>
       ELSE IF replay_items[ri + 1] = <<>>
       THEN /\ replay_results' = Append(replay_results, "no_action_to_replay")
            /\ ri' = ri + 1
            /\ rpc' = "loop"
            /\ UNCHANGED retry_count
       ELSE /\ retry_count' = 0
            /\ rpc' = "while"
            /\ UNCHANGED <<ri, replay_results>>
    /\ UNCHANGED <<replay_items, max_retries, skip_failures, replay_state,
                   updated_actions, replay_dispatched, replay_trace>>
    /\ UNCHANGED <<mhVars, mmVars, hostVars, batchVars, flagVars, runVars, treeVars>>

\* "while retry_count < max_retries": the next attempt, or the next step
ReplayWhile ==
    /\ rpc = "while"
    /\ IF retry_count < max_retries
       THEN /\ rpc' = "execute_history_step"
            /\ replay_trace' = Traced("attempt")
            /\ UNCHANGED ri
       ELSE /\ rpc' = "loop"
            /\ ri' = ri + 1
            /\ UNCHANGED replay_trace
    /\ UNCHANGED <<replay_items, max_retries, skip_failures, retry_count, replay_results,
                   replay_state, updated_actions, replay_dispatched>>
    /\ UNCHANGED <<mhVars, mmVars, hostVars, batchVars, flagVars, runVars, treeVars>>

\* _execute_history_step: state = await get_state(); every action is
\* re-targeted; ValueError('Could not find matching element ...') at the
\* first one that is not found; multi_act is called when all were found
ReplayExecuteHistoryStep ==
    /\ rpc = "execute_history_step"
    /\ \E getStateRaises \in BOOLEAN :
          IF getStateRaises
          THEN /\ rpc' = "attempt_failed"
               /\ UNCHANGED <<replay_items, replay_state, updated_actions, replay_trace>>
          ELSE LET u == UpdateFrom(replay_items[ri + 1], 1, element_tree)
               IN /\ replay_state' = element_tree
                  /\ replay_items' = [replay_items EXCEPT ![ri + 1] = u.actions]
                  /\ IF u.missing
                     THEN /\ rpc' = "attempt_failed"
                          /\ replay_trace' = Traced("could_not_find_matching_element")
                          /\ UNCHANGED updated_actions
                     ELSE /\ rpc' = "multi_act"
                          /\ updated_actions' = u.actions
                          /\ UNCHANGED replay_trace
    /\ UNCHANGED <<max_retries, skip_failures, ri, retry_count, replay_results,
                   replay_dispatched>>
    /\ UNCHANGED <<mhVars, mmVars, hostVars, batchVars, flagVars, runVars, treeVars>>

\* result = await multi_act(updated_actions); await asyncio.sleep(delay);
\* results.extend(result); break.  multi_act dispatches a prefix of the
\* batch and returns its results, or raises
ReplayMultiAct ==
    /\ rpc = "multi_act"
    /\ \E n \in 0 .. Len(updated_actions), raises \in BOOLEAN :
          /\ (~raises => n >= 1)
          /\ replay_dispatched' =
                replay_dispatched \o
                    [j \in 1 .. n |-> [step |-> ri, position |-> j,
                                       index |-> updated_actions[j].index]]
          /\ IF raises
             THEN /\ rpc' = "attempt_failed"
                  /\ UNCHANGED <<ri, replay_results>>
             ELSE /\ replay_results' =
                        replay_results \o [j \in 1 .. n |-> "action_result"]
                  /\ ri' = ri + 1
                  /\ rpc' = "loop"
    /\ updated_actions' = <<>>
    /\ replay_state' = <<>>
    /\ UNCHANGED <<replay_items, max_retries, skip_failures, retry_count, replay_trace>>
    /\ UNCHANGED <<mhVars, mmVars, hostVars, batchVars, flagVars, runVars, treeVars>>

\* except Exception: retry_count += 1; on the last attempt the error is
\* raised unless failures are skipped; else the delay, then the next attempt
ReplayAttemptFailed ==
    /\ rpc = "attempt_failed"
    /\ retry_count' = retry_count + 1
    /\ IF retry_count + 1 = max_retries
       THEN IF ~skip_failures
            THEN /\ replay_results' = Append(replay_results, "failed_after_max_retries")
                 /\ rpc' = "raised"
                 /\ UNCHANGED replay_trace
            ELSE /\ rpc' = "while"
                 /\ UNCHANGED <<replay_results, replay_trace>>
       ELSE /\ replay_trace' = Traced("delay")
            /\ rpc' = "while"
            /\ UNCHANGED replay_results
    /\ replay_state' = <<>>
    /\ UNCHANGED <<replay_items, max_retries, skip_failures, ri, updated_actions,
                   replay_dispatched>>
    /\ UNCHANGED <<mhVars, mmVars, hostVars, batchVars, flagVars, runVars, treeVars>>

\* the page re-renders while the replay is suspended (once per replay): an
\* element appears or disappears, which renumbers the highlight indices, or
\* an element is replaced by one with another tag
ReplayPageRerenders ==
    /\ rpc \in {"execute_history_step", "multi_act"}
    /\ last_change = NoChange
    /\ \E k \in NodeIds, kind \in {"highlight", "tag_name"} :
          LET change == [kind |-> kind, node |-> k, key |-> <<>>]
          IN /\ last_change' = change
             /\ element_tree' = Rerendered(element_tree, change,
                                           CHOOSE t \in TagNames : t # element_tree[k].tag_name, 0)
    /\ snapshot_before' = element_tree
    /\ UNCHANGED <<dom_history_element, source_node, match_criteria, found, tpc>>
    /\ UNCHANGED <<mhVars, mmVars, hostVars, batchVars, flagVars, runVars, replayVars>>

ReplayNext ==
    \/ ReplayStart
    \/ ReplayLoop
    \/ ReplayWhile
    \/ ReplayExecuteHistoryStep
    \/ ReplayMultiAct
    \/ ReplayAttemptFailed
    \/ ReplayPageRerenders

InitReplay ==
    /\ MHRest /\ MMRest /\ HostRest /\ BatchRest /\ FlagsRest /\ RunRest("idle")
    /\ element_tree \in RecordedSnapshots
    /\ snapshot_before = element_tree
    /\ last_change = NoChange
    /\ dom_history_element = NoHistoryElement
    /\ source_node = 0
    /\ match_criteria = DefaultCriteria
    /\ found = NotFound
    /\ tpc = "page"
    /\ replay_items \in [1 .. MaxReplaySteps -> RecordedSteps(element_tree)]
    /\ max_retries \in 0 .. MaxRetries
    /\ skip_failures \in BOOLEAN
    /\ ri = 0
    /\ retry_count = 0
    /\ replay_results = <<>>
    /\ replay_state = <<>>
    /\ updated_actions = <<>>
    /\ replay_dispatched = <<>>
    /\ replay_trace = [k \in 1 .. MaxReplaySteps |-> <<>>]
    /\ rpc = "start"

SpecReplay == InitReplay /\ [][ReplayNext]_vars

InitTree ==
    /\ MHRest /\ MMRest /\ HostRest /\ BatchRest /\ FlagsRest /\ RunRest("idle") /\ ReplayRest
    /\ element_tree \in FirstSnapshots
    /\ snapshot_before = element_tree
    /\ last_change = NoChange
    /\ dom_history_element = NoHistoryElement
    /\ source_node = 0
    /\ match_criteria = DefaultCriteria
    /\ found = NotFound
    /\ tpc = "snapshot"

SpecTree == InitTree /\ [][TreeNext]_vars


(***************************************************************************)
(* Claims about Agent.rerun_history (checked under SpecReplay)             *)
(***************************************************************************)
\* node k of the tree is interactive and equal to the stored element in
\* branch path, attributes, xpath and css selector
IsStoredElement(tree, k, element) ==
    /\ tree[k].highlight_index # 0
    /\ parent_branch_path_hash(get_parent_branch_path(tree, k))
           = parent_branch_path_hash(element.entire_parent_branch_path)
    /\ attributes_hash(tree[k].attributes) = attributes_hash(element.attributes)
    /\ tree[k].xpath = element.xpath
    /\ enhanced_css_selector_for_element(tree[k]) = element.css_selector

\* C22: during replay an action with a stored element is re-targeted before
\* it is executed: what is dispatched carries the highlight index that an
\* interactive node equal to the stored element has in the state read for
\* this attempt; when a stored element of the step is not in that state the
\* attempt fails with the "could not find matching element" error and
\* dispatches nothing.
C22_RetargetedBeforeDispatch ==
    [][ /\ \A m \in Len(replay_dispatched) + 1 .. Len(replay_dispatched') :
              LET d == replay_dispatched'[m]
                  recorded == replay_items[ri + 1][d.position]
              IN recorded.element # NoHistoryElement =>
                     \E k \in NodeIds :
                        /\ IsStoredElement(replay_state, k, recorded.element)
                        /\ d.index = replay_state[k].highlight_index
        /\ (/\ rpc = "execute_history_step"
            /\ replay_state' # <<>>
            /\ \E j \in 1 .. Len(replay_items[ri + 1]) :
                  /\ replay_items[ri + 1][j].element # NoHistoryElement
                  /\ \A k \in NodeIds :
                        ~IsStoredElement(replay_state', k, replay_items[ri + 1][j].element))
           => /\ rpc' = "attempt_failed"
              /\ replay_trace' = Traced("could_not_find_matching_element")
              /\ replay_dispatched' = replay_dispatched
      ]_vars

\* a step failed because its element was gone, and an action of a later
\* step was dispatched with another index than the one it was recorded with
C22_Witness ==
    /\ \E s \in 1 .. Len(replay_trace) :
          "could_not_find_matching_element" \in Range(replay_trace[s])
    /\ \E m \in 1 .. Len(replay_dispatched) :
          LET d == replay_dispatched[m]
              recorded == replay_items[d.step + 1][d.position]
          IN /\ recorded.element # NoHistoryElement
             /\ d.index # recorded.element.highlight_index

Attempts(s) == Len(SelectSeq(replay_trace[s], LAMBDA e : e = "attempt"))
Delays(s) == Len(SelectSeq(replay_trace[s], LAMBDA e : e = "delay"))

\* C23: every step that has actions is attempted at least once and at most
\* max_retries times with the delay between consecutive attempts; when the
\* attempts are used up the replay raises if skip_failures is false (no
\* later step is attempted) and goes on with the next step if it is true;
\* for every max_retries >= 0.
C23_AttemptedOnceToMaxRetries ==
    /\ \A s \in 1 .. ri :
          replay_items[s] # <<>> =>
              /\ Attempts(s) \in 1 .. max_retries
              /\ Delays(s) = Attempts(s) - 1
    /\ (rpc = "while" /\ retry_count >= max_retries) => skip_failures
    /\ rpc = "raised" =>
          /\ ~skip_failures
          /\ Attempts(ri + 1) = max_retries
          /\ \A s \in ri + 2 .. Len(replay_items) : Attempts(s) = 0

(***************************************************************************)
(* Claims about MessageHistory (checked under SpecMH)                      *)
(***************************************************************************)
LastLen == Len(mh_last.before)

\* C7: after any sequence of add_message / remove_message calls (any
\* position, failing and no-op removals included) total_tokens is the sum
\* of the token costs of the entries now in the history; 0 when empty.
C7_TokenAccounting ==
    /\ total_tokens = SumTokens(messages)
    /\ (messages = <<>> => total_tokens = 0)

\* a failing removal on a non-empty history that earlier adds and a
\* successful removal built up
C7_Witness ==
    /\ mh_last.op = "remove" /\ mh_last.raised
    /\ Len(messages) = 2 /\ total_tokens = 15

\* C8: insertion semantics. position = -1 on a non-empty history puts the
\* new message right before the last one; position >= len appends;
\* position = 0 puts it first; the old messages keep their order and the
\* length grows by exactly one.
C8_InsertionSemantics ==
    mh_last.op = "add" =>
        LET b == mh_last.before
            m == mh_last.msg[1]
            p == mh_last.arg
        IN /\ Len(messages) = Len(b) + 1
           /\ \E k \in 0 .. Len(b) : messages[k + 1] = m /\ RemoveAt(messages, k) = b
           /\ (mh_last.hasPos /\ p = -1 /\ Len(b) >= 1 =>
                 messages = SubSeq(b, 1, Len(b) - 1) \o <<m>> \o <<b[Len(b)]>>)
           /\ (mh_last.hasPos /\ p >= Len(b) => messages = Append(b, m))
           /\ (~mh_last.hasPos => messages = Append(b, m))
           /\ (mh_last.hasPos /\ p = 0 => messages = <<m>> \o b)

\* [A,B] then insert C at position -1 gives [A,C,B]
C8_Witness ==
    /\ mh_last.op = "add" /\ mh_last.hasPos /\ mh_last.arg = -1
    /\ Len(messages) = 3
    /\ messages[1].content = "A" /\ messages[2].content = "C"
    /\ messages[3].content = "B"

\* C9: remove_message() with the default index on an empty history is a
\* no-op; remove_message(i) with i outside -len..len-1 on a non-empty
\* history fails with an out-of-range error; both leave the message list
\* and total_tokens unchanged.
C9_RemoveEdgeCases ==
    mh_last.op = "remove" =>
        /\ (mh_last.before = <<>> /\ mh_last.arg = -1 =>
              ~mh_last.raised /\ messages = <<>> /\ total_tokens = mh_last.beforeTokens)
        /\ (mh_last.before # <<>> /\ ~Resolves(LastLen, mh_last.arg) =>
              /\ mh_last.raised
              /\ messages = mh_last.before
              /\ total_tokens = mh_last.beforeTokens)

\* removeAt(5) on a one-element history raised and changed nothing
C9_Witness ==
    /\ mh_last.op = "remove" /\ mh_last.arg = 5 /\ mh_last.raised
    /\ Len(mh_last.before) = 1 /\ messages = mh_last.before

\* the default removal on an empty history
C9_WitnessEmpty ==
    mh_last.op = "remove" /\ mh_last.arg = -1 /\ mh_last.before = <<>> /\ messages = <<>>

\* C10: remove_message(i) with a valid index removes exactly the entry at
\* position i (negative i counting from the end, the default -1 being the
\* last entry), keeps the others in order and lowers total_tokens by the
\* removed entry's cost.
C10_RemoveAtIndex ==
    (mh_last.op = "remove" /\ mh_last.before # <<>> /\ Resolves(LastLen, mh_last.arg)) =>
        LET k == Resolved(LastLen, mh_last.arg)
        IN /\ ~mh_last.raised
           /\ messages = RemoveAt(mh_last.before, k)
           /\ Len(messages) = LastLen - 1
           /\ total_tokens = mh_last.beforeTokens - mh_last.before[k + 1].tokens
           /\ (mh_last.arg = -1 => messages = SubSeq(mh_last.before, 1, LastLen - 1))

\* add(A,5), add(B,5), remove at 0 leaves only B with total_tokens = 5
C10_Witness ==
    /\ mh_last.op = "remove" /\ mh_last.arg = 0
    /\ mh_last.before = <<[content |-> "A", tokens |-> 5], [content |-> "B", tokens |-> 5]>>
    /\ messages = <<[content |-> "B", tokens |-> 5]>>
    /\ total_tokens = 5


\* C30 (as stated): append inserts the new message at index clamp(p, 0, len)
\* when p is non-negative and at index max(0, len + 1 + p) when p is negative.
C30_InsertsAtLenPlusOnePlusPosition ==
    (mh_last.op = "add" /\ mh_last.hasPos) =>
        LET b == mh_last.before
            p == mh_last.arg
            k == IF p >= 0 THEN Max(0, Min(p, Len(b))) ELSE Max(0, Len(b) + 1 + p)
        IN messages = InsertAt(b, k, mh_last.msg[1])

\* C30 (amended): append inserts the new message at index clamp(p, 0, len)
\* when p is non-negative and at index max(0, len + p) when p is negative,
\* so that position = -1 inserts before the current last element.
C30_InsertsAtLenPlusPosition ==
    (mh_last.op = "add" /\ mh_last.hasPos) =>
        LET b == mh_last.before
            p == mh_last.arg
            k == IF p >= 0 THEN Max(0, Min(p, Len(b))) ELSE Max(0, Len(b) + p)
        IN messages = InsertAt(b, k, mh_last.msg[1])

\* [A,B] then insert C at position -2 gives [C,A,B]; position -1 gave [A,C,B]
C30_Witness ==
    /\ mh_last.op = "add" /\ mh_last.hasPos /\ mh_last.arg = -2
    /\ Len(mh_last.before) = 2
    /\ messages[1].content = "C" /\ messages[2].content = "A"
    /\ messages[3].content = "B"

(***************************************************************************)
(* Claims about HistoryTreeProcessor (checked under SpecTree)              *)
(***************************************************************************)
\* the fingerprint of node k: branch-path hash, attributes hash, xpath hash
\* and css selector
Fingerprint(tree, k) == hash_dom_element(tree, k)

\* the last search ran with the default criteria on the snapshot the
\* history element was taken from
RoundTrip ==
    tpc = "found" /\ last_change = NoChange /\ match_criteria = DefaultCriteria

DenylistedKeys ==
    {<<"p", "i", "n", "g">>, <<"n", "g", "-", "a">>, <<"v", "-", "a">>,
     <<"d", "a", "t", "a", "-", "v", "-", "a">>}
AttributeChange == last_change.kind \in {"attribute", "attribute_removed"}

\* node j is node k or one of its ancestors
RECURSIVE OnPath(_, _, _)
OnPath(tree, j, k) ==
    j = k \/ (tree[k].parent # 0 /\ OnPath(tree, j, tree[k].parent))

C26_FingerprintSensitive ==
    tpc = "rerendered" =>
        \A k \in NodeIds :
            (\/ (last_change.kind = "tag_name" /\ OnPath(element_tree, last_change.node, k))
             \/ (AttributeChange /\ last_change.key \notin DenylistedKeys
                    /\ last_change.node = k)) =>
                Fingerprint(element_tree, k) # Fingerprint(snapshot_before, k)

\* the criteria the search knows
RecognisedCriteria == {"branch_path", "attributes", "xpath", "css_selector"}
Component(hashed, criterion) ==
    IF criterion = "branch_path" THEN hashed.branch_path_hash
    ELSE IF criterion = "attributes" THEN hashed.attributes_hash
    ELSE IF criterion = "xpath" THEN hashed.xpath_hash
    ELSE hashed.css_selector
RequestedCriteria == Range(match_criteria) \cap RecognisedCriteria
Qualifies(k) ==
    /\ element_tree[k].highlight_index # 0
    /\ \A c \in RequestedCriteria :
           Component(Fingerprint(element_tree, k), c)
               = Component(hash_dom_history_element(dom_history_element), c)
Qualifying == SelectSeq(process_node(element_tree, TreeRoot), Qualifies)

\* C27: the search returns a node only if it is interactive and every
\* requested criterion matches; of several such nodes the first in pre-order;
\* None when there is none; and a criteria list that is empty or names no
\* recognised criterion never makes a node match.
C27_FirstQualifyingNode ==
    tpc = "found" =>
        IF RequestedCriteria = {} THEN found.node = 0
        ELSE found.node = (IF Qualifying = <<>> THEN 0 ELSE Qualifying[1])

(***************************************************************************)
(* Claims about Agent.multi_act (checked under SpecBatch)                  *)
(***************************************************************************)
\* the batch is past the drift check of position i (or that position had none)
PastCheck ==
    mpc \in {"guard", "act", "sleep", "returned", "interrupted", "cancel_interrupted", "failed"}
\* position i is index-addressed and not the first: its drift check was made
CheckedPosition == actions # <<>> /\ i # 0 /\ HasIndex(actions[i + 1])

C11_InOrderUntilTerminal ==
    /\ dispatched = [k \in 1 .. Len(dispatched) |-> k - 1]
    /\ Len(dispatched) <= Len(actions)
    /\ (mpc = "act" => Len(results) = Len(dispatched) - 1)
    /\ \A k \in 1 .. Len(results) :
          results[k] \in {"is_done", "error"} =>
              k = Len(results) /\ Len(dispatched) = k /\ mpc = "returned"
    /\ Len(results) <= Len(actions)
    /\ (actions = <<>> => results = <<>> /\ dispatched = <<>>)

\* a 3-action batch returned after its second action failed
C11_Witness ==
    /\ Len(actions) = 3 /\ mpc = "returned"
    /\ results = <<"ok", "error">>
    /\ dispatched = <<0, 1>>

\* the batch returned from the drift check of position i with a synthetic result
Fingerprints(map) == {hash(map[k]) : k \in {j \in Idx : map[j] # NoElement}}
LastResult == IF results = <<>> THEN "none" ELSE results[Len(results)]
DriftAborted == mpc = "returned" /\ LastResult \in {"element_changed", "new_elements"}
TargetChanged ==
    TargetHash(new_selector_map, actions[i + 1].index)
        # TargetHash(cached_selector_map, actions[i + 1].index)

C13_DisappearingContentContinues ==
    (PastCheck /\ CheckedPosition) =>
        /\ (/\ Fingerprints(new_selector_map) \subseteq Fingerprints(cached_selector_map)
            /\ TargetHashFullFingerprint(new_selector_map, actions[i + 1].index)
                 = TargetHashFullFingerprint(cached_selector_map, actions[i + 1].index)) =>
              /\ ~DriftAborted
              /\ (mpc # "interrupted" /\ mpc # "guard" => i \in Range(dispatched))
        /\ DriftAborted =>
              \/ ~(PathHashes(new_selector_map) \subseteq PathHashes(cached_selector_map))
              \/ TargetChanged

\* an element disappeared before the second action of a strict batch and
\* the action was dispatched all the same
C13_Witness ==
    /\ check_for_new_elements
    /\ mpc = "act" /\ i = 1 /\ HasIndex(actions[2])
    /\ \E k \in Idx : new_selector_map[k] = NoElement /\ cached_selector_map[k] # NoElement
    /\ Fingerprints(new_selector_map) \subseteq Fingerprints(cached_selector_map)

\* C36: an index-addressed action beyond the first is dispatched only if
\* its index has an element in the selector map read for its drift check;
\* an index absent from that map makes the check end the batch, also when
\* the index was absent from the cached map.
C36_AbsentIndexAborts ==
    /\ (mpc = "act" /\ i # 0 /\ HasIndex(actions[i + 1])) =>
          new_selector_map[actions[i + 1].index] # NoElement
    /\ (PastCheck /\ CheckedPosition
          /\ new_selector_map[actions[i + 1].index] = NoElement) =>
          /\ mpc = "returned"
          /\ i \notin Range(dispatched)

(***************************************************************************)
(* Claims about Agent.run and Agent.step (checked under Spec)              *)
(***************************************************************************)
\* the call of step() that ended last, seen before run() moves on
LastExit == IF step_exits = <<>> THEN "none" ELSE step_exits[Len(step_exits)]
OutputInConversation(output) ==
    \E k \in 1 .. Len(conversation) :
        conversation[k].kind = "output" /\ conversation[k].of = output
ResultKinds(h) == UNION {Range(h[k].result) : k \in 1 .. Len(h)}

\* C3: step() is never entered while the agent is stopped, paused, or at or
\* over its failure budget, whatever the interleaving of pause(), resume()
\* and stop() with the run loop.
C3_StepNeverEnteredWhileHalted ==
    step_exits # <<>> =>
        /\ ~step_entry.stopped
        /\ ~step_entry.paused
        /\ step_entry.failures < max_failures

\* C4: a pause or stop observed at any of the four checkpoints of step()
\* (after the snapshot, after the model call, before the commit, inside the
\* action loop) discards the step: no model output of that step is in the
\* conversation, no record is appended, consecutive_failures is unchanged
\* and last_result is the single 'paused mid-step' result.
C4_InterruptedStepDiscarded ==
    (pc = "after_step" /\
     LastExit \in {"after_snapshot", "after_model_call", "before_commit", "action_loop"}) =>
        /\ (model_output # 0 => ~OutputInConversation(model_output))
        /\ Len(history) = step_entry.records
        /\ consecutive_failures = step_entry.failures
        /\ last_result = <<"paused_mid_step">>

\* C5: when run(max_steps = N) returns after N calls of step() that each ran
\* their actions to the end with at least one result and none of them
\* is_done, the history is exactly N step records, each with a model output,
\* followed by the one 'ran out of steps' record without model output.
C5_StepBudgetExhausted ==
    (/\ pc = "returned"
     /\ Len(step_exits) = max_steps
     /\ \A k \in 1 .. Len(step_exits) : step_exits[k] = "completed"
     /\ "is_done" \notin ResultKinds(history)) =>
        /\ Len(history) = max_steps + 1
        /\ history[max_steps + 1] = MaxStepsRecord
        /\ \A k \in 1 .. max_steps :
              /\ history[k].model_output # 0
              /\ history[k].result # <<>>
              /\ "max_steps_error" \notin Range(history[k].result)

\* run(max_steps = 2) returned three records after two undisturbed steps
C5_Witness ==
    /\ pc = "returned"
    /\ max_steps = 2
    /\ step_exits = <<"completed", "completed">>
    /\ "is_done" \notin ResultKinds(history)
    /\ Len(history) = 3
    /\ history[3] = MaxStepsRecord

\* C6: run() never raises: whatever fails in the initial actions, in a
\* step or in a hook, run() ends by returning the history.
C6_RunNeverRaises == pc # "raised"


\* texts of the results _handle_step_error returns
ErrorTexts == {"parse_failure", "provider_rate_limit", "page_error", "new_step_callback",
               "browser_closed", "llm_api_call_failed"}
\* what the caller of step() can see of the step that just ended
StepOutput ==
    Range(last_result) \cup
    (IF Len(history) > step_entry.records THEN Range(history[Len(history)].result) ELSE {})

\* C14: when an action is cancelled in flight, a cancellation result for it
\* is visible to the caller of multi_act (in last_result or in the record
\* of the step), whether it was the first action of the batch or a later one.
C14_CancelledActionRecorded ==
    (pc = "after_step" /\ LastExit = "action_cancelled") => "cancelled" \in StepOutput

\* C15: after a step that hit a parse failure or a provider rate limit,
\* consecutive_failures is one more than at entry, last_result is the one
\* failed result carrying the error text, and for the rate limit the
\* retry_delay sleep has elapsed before step() returned.
C15_RecoverableErrorHandled ==
    (pc = "after_step" /\ LastExit \in {"error", "error_after_backoff"}
        /\ error.cause \in {"parse_failure", "provider_rate_limit"}) =>
        /\ consecutive_failures = step_entry.failures + 1
        /\ last_result = <<ErrorText(error)>>
        /\ (error.cause = "provider_rate_limit" => LastExit = "error_after_backoff")

\* position of the newest state message
LastStateMessage ==
    CHOOSE k \in 1 .. Len(conversation) :
        /\ conversation[k].kind = "state"
        /\ \A j \in k + 1 .. Len(conversation) : conversation[j].kind # "state"

\* C16: when the model is invoked and a recoverable step error has occurred
\* since the last model call, the state message built for this call carries
\* that error's text among the prior results.
C16_ErrorMirrored ==
    (pc = "step_model_call"
        /\ pending_error \in {"parse_failure", "provider_rate_limit", "llm_api_call_failed"}) =>
        pending_error \in Range(conversation[LastStateMessage].results)

\* C17: no call of step() follows a step that failed with 'Browser closed'.
C17_BrowserClosedIsFatal ==
    \A k \in 1 .. Len(step_exits) - 1 : step_exits[k] # "browser_closed"

\* C18: when run() ended on the failure budget, the last max_failures
\* records of the history are those of the failing steps, each with its
\* error result.
C18_FailedRunKeepsErrors ==
    run_end = "failed" =>
        /\ Len(history) >= max_failures
        /\ \A k \in (Len(history) - max_failures + 1) .. Len(history) :
              k >= 1 => Range(history[k].result) \subseteq ErrorTexts

\* C19: run() ends as done only right after a step that ran to its end and
\* whose final result is_done.
C19_DoneOnlyAfterDoneStep ==
    run_end = "done" => (LastExit = "completed" /\ is_done(history))

\* C20: a raising done callback does not make run() raise, and a step whose
\* new-step callback raised is not counted as a failure.
C20_CallbackFailureHarmless ==
    /\ run_end # "raised_done_callback"
    /\ (pc = "after_step" /\ error.cause = "new_step_callback") =>
          consecutive_failures = step_entry.failures

\* the entries that are there to stay: everything but state messages
Committed(conv) == SelectSeq(conv, LAMBDA m : m.kind # "state")
IsPrefix(p, q) == Len(p) <= Len(q) /\ SubSeq(q, 1, Len(p)) = p

\* C21: the state message is removed again once the model has responded, or
\* the call failed or was interrupted: when step() is over the conversation
\* holds no state message, and no other entry is ever removed, on the last
\* step with its warning and after a pause as well.
C21_StateMessageRemoved ==
    [][ /\ IsPrefix(Committed(conversation), Committed(conversation'))
        /\ (pc' = "after_step" =>
               \A k \in 1 .. Len(conversation') : conversation'[k].kind # "state")
      ]_vars

\* C28: the action list handed to multi_act is the model's list cut to
\* max_actions_per_step, and no step dispatches more actions than that.
C28_ActionsCut ==
    /\ pc = "step_before_commit" =>
          /\ Len(actions) <= max_actions_per_step
          /\ Len(actions) <= Len(response_action)
          /\ \A k \in 1 .. Len(actions) : actions[k] = response_action[k]
          /\ Len(actions) = max_actions_per_step \/ Len(actions) = Len(response_action)
    /\ pc = "step_multi_act" =>
          /\ Len(actions) <= max_actions_per_step
          /\ Len(dispatched) <= max_actions_per_step

\* the model gave more actions than the step may take
C28_Witness ==
    /\ pc = "step_before_commit"
    /\ Len(response_action) > max_actions_per_step
    /\ Len(actions) = max_actions_per_step

OverflowsHandled == Len(SelectSeq(step_exits, LAMBDA e : e = "cut_tokens"))

\* C29: each handled 'Max token limit reached' error lowers the message
\* manager's budget by 500 from what it was: after k of them the budget is
\* the initial one minus 500 * k.
C29_BudgetLoweredEachTime ==
    mm_max_input_tokens = max_input_tokens - 500 * OverflowsHandled

\* C33: the 'Failed to complete task in maximum steps' record is appended
\* only when the steps that ran used up the budget: never when the run had
\* been stopped or the consecutive failures had reached max_failures, the
\* last allowed iteration included.
C33_MaxStepsRecordOnlyWhenExhausted ==
    [][ (history' # history /\ history'[Len(history')] = MaxStepsRecord) =>
            (~stopped /\ consecutive_failures < max_failures)
      ]_vars

\* C34: every increment of n_steps is followed, before the next step begins,
\* by the append of exactly one record that carries the step's model output,
\* and a call of step() appends at most one record; also when the model
\* gave no action, when a pause is seen after the increment and when the
\* batch raises.
C34_CounterAndLogInStep ==
    pc = "after_step" =>
        /\ Len(history) <= step_entry.records + 1
        /\ (model_output # 0 =>
               /\ Len(history) = step_entry.records + 1
               /\ history[Len(history)].model_output = model_output)

\* how a call of step() ended: in a step-level exception handled by
\* _handle_step_error, or with the batch returned
FailedExits == {"error", "error_after_backoff", "cut_tokens", "browser_closed", "handler_raised"}
ReturnedExits == {"completed", "no_result"}

\* the steps at the end of the run so far that all ended in an exception
RECURSIVE TrailingFailures(_)
TrailingFailures(exits) ==
    IF exits = <<>> \/ exits[Len(exits)] \notin FailedExits THEN 0
    ELSE 1 + TrailingFailures(SubSeq(exits, 1, Len(exits) - 1))

\* the steps that ended in an exception since the last one whose batch
\* returned, the discarded steps in between left out
RECURSIVE FailuresSinceReturn(_)
FailuresSinceReturn(exits) ==
    IF exits = <<>> \/ exits[Len(exits)] \in ReturnedExits THEN 0
    ELSE (IF exits[Len(exits)] \in FailedExits THEN 1 ELSE 0)
             + FailuresSinceReturn(SubSeq(exits, 1, Len(exits) - 1))

BetweenSteps == step_exits = <<>> \/ LastExit # "running"

\* C39 (as stated): consecutive_failures stays within 0 .. max_failures,
\* equals the number of most recent consecutive steps that ended in a
\* step-level exception, and is 0 after every step whose batch returned.
C39_CounterIsTrailingFailures ==
    /\ consecutive_failures \in 0 .. max_failures
    /\ BetweenSteps => consecutive_failures = TrailingFailures(step_exits)
    /\ (pc = "after_step" /\ LastExit \in ReturnedExits) => consecutive_failures = 0

\* C39 (amended): consecutive_failures stays within 0 .. max_failures,
\* equals the number of steps that ended in a step-level exception since
\* the last step whose batch returned (a step discarded on pause, stop or
\* Ctrl+C neither counts nor resets), and is 0 after every step whose batch
\* returned a result list.
C39_CounterIsFailuresSinceReturn ==
    /\ consecutive_failures \in 0 .. max_failures
    /\ BetweenSteps => consecutive_failures = FailuresSinceReturn(step_exits)
    /\ (pc = "after_step" /\ LastExit \in ReturnedExits) => consecutive_failures = 0

\* two failed steps with a discarded one between them
C39_Witness ==
    /\ pc = "after_step"
    /\ consecutive_failures = 2
    /\ Len(step_exits) = 3
    /\ step_exits[1] \in FailedExits
    /\ step_exits[2] \notin FailedExits \cup ReturnedExits
    /\ step_exits[3] \in FailedExits

(***************************************************************************)
(* Claims about the results of Agent.rerun_history.                        *)
(***************************************************************************)
\* C37: in rerun_history a step counts as successfully replayed (the loop
\* goes on to the next step with the batch's results) only if every one of
\* its actions was dispatched; a batch cut short is retried or failed.
C37_ReplayedOnlyWhenAllDispatched ==
    [][ (rpc = "multi_act" /\ rpc' = "loop") =>
            Len(replay_dispatched') - Len(replay_dispatched) = Len(updated_actions)
      ]_vars

\* C38: the list rerun_history returns holds at least one result for every
\* historical step, in step order: whenever the loop leaves a step, that
\* step has added a result (no action, batch results, or the error of a
\* step skipped after its retries).
C38_ResultForEveryStep ==
    [][ ri' = ri + 1 => Len(replay_results') > Len(replay_results) ]_vars

(***************************************************************************)
(* Termination of Agent.run.  Every await of run(), step() and multi_act   *)
(* returns, so each of their steps is taken when it stays possible (weak   *)
(* fairness).  The loop "while self.state.paused" polls the flag every     *)
(* 0.2 s: a flag that is clear again and again is eventually seen clear    *)
(* (strong fairness of the poll).                                          *)
(***************************************************************************)
\* runs of one step in every configuration, and runs of two steps with the
\* validator on and nothing else
ValidatingConfig ==
    /\ hooks = FALSE
    /\ initial_actions = <<>>
    /\ validate_output = TRUE
    /\ max_failures = 1
    /\ tool_calling_method = "function_calling"
    /\ planner_llm = FALSE
    /\ max_actions_per_step = RunMaxActions

InitFair ==
    /\ Init
    /\ max_steps <= 2
    /\ (max_steps = 2 => ValidatingConfig)

Fairness ==
    /\ WF_vars(RunNext)
    /\ WF_vars(MultiActNext)
    /\ SF_vars(RunPauseSleep)

SpecFair == InitFair /\ [][Next]_vars /\ Fairness

\* run() with the restart of the browser followed
ResumeNext ==
    \/ RunNext
    \/ MultiActNext
    \/ pause
    \/ ResumeRestartsBrowser
    \/ stop
    \/ BrowserInitCompletes

SpecResume == InitFair /\ [][ResumeNext]_vars

Terminated == pc \in {"returned", "raised"}

\* every pause is eventually followed by resume or stop
PauseIsFollowed == paused ~> (~paused \/ stopped)

C35_DoneCallbackOnce ==
    /\ done_callbacks <= 1
    /\ (pc = "returned" /\ run_end = "done" /\ hooks) => done_callbacks = 1
    /\ (pc = "returned" /\ run_end # "done") => done_callbacks = 0

(***************************************************************************)
(* Claims about resume().                                                  *)
(***************************************************************************)
\* C32: after resume() on a paused agent no step takes a snapshot of the
\* browser or dispatches an action before the re-initialisation that
\* resume() started has completed.
C32_NoStepBeforeBrowserInit ==
    [][ (\/ pc = "step_get_state" /\ pc' # "step_get_state"
         \/ Len(dispatched') > Len(dispatched)) => ~browser_init
      ]_vars

(***************************************************************************)
(* Claims about MessageManager.get_messages.                               *)
(***************************************************************************)
\* the model outputs carried by the tool calls of a message sequence
RECURSIVE OutputsIn(_)
OutputsIn(msgs) ==
    IF msgs = <<>> THEN <<>>
    ELSE (IF msgs[1].type = "ai" /\ msgs[1].output # 0 THEN <<msgs[1].output>> ELSE <<>>)
             \o OutputsIn(Tail(msgs))

\* the outputs of the last limit of the first n recorded steps, oldest first
LastOutputs(steps, n, limit) ==
    LET k == IF limit < n THEN limit ELSE n
    IN [j \in 1 .. k |-> steps[n - k + j].output]

\* C31: for every limit >= 0 and every number of recorded interactions,
\* get_messages includes at most max_num_of_msg_in_history past steps, the
\* most recent ones, oldest first, so that the sequence is never longer
\* than 3 + 2 * max(1, limit) messages.
C31_AtMostLimitPastSteps ==
    got_messages.messages # <<>> =>
        /\ OutputsIn(got_messages.messages) =
               LastOutputs(past_steps, got_messages.recorded, max_num_of_msg_in_history)
        /\ Len(got_messages.messages) <=
               3 + 2 * (IF max_num_of_msg_in_history < 1 THEN 1
                        ELSE max_num_of_msg_in_history)

====
